---- MODULE Spec2Model ----
(***************************************************************************)
(* AMR kd-tree (yt/utilities/amr_kdtree/oo_amr_kdtree.py): construction,   *)
(* traversal, cost/volume accounting, neighbor location and the image      *)
(* compositor, as state machines.  Coordinates are integers in units of    *)
(* the finest cell width; images are one pixel of integer channel values   *)
(* in fixed point, full opacity = Opaque.                                 *)
(***************************************************************************)
EXTENDS Integers, Sequences, FiniteSets, TLC

VARIABLES
    hier,            \* pf.hierarchy.grids: sequence of grid records, grid.id = index
    nprocs,          \* module global nprocs
    my_rank,         \* module global my_rank
    l_max,           \* self.l_max
    pc,              \* position of the constructor / current operation
    err,             \* exception that ended the constructor or operation ("" = none)
    tree,            \* the nodes reachable from self.tree, keyed by node id
    current_node,    \* loop variable current_node / current (node id or None)
    previous_node,   \* loop variable previous_node / previous (node id or None)
    domain_left_edge,  \* self.domain_left_edge (requested region)
    domain_right_edge, \* self.domain_right_edge
    my_l_corner,     \* self.my_l_corner
    my_r_corner,     \* self.my_r_corner
    claimed,         \* ids of the nodes at which __build took the "I own this shared node" branch
    volume,          \* accumulator v of count_volume, then self.volume
    total_cost,      \* self.total_cost
    viewpoint,       \* argument of viewpoint_traverse / reduce_tree_images
    visited,         \* the nodes viewpoint_traverse has yielded, in order
    brick_id,        \* argument of get_all_neighbor_bricks
    periodic,        \* argument of get_all_neighbor_bricks
    le,              \* left edge of the neighbor query box
    re,              \* right edge of the neighbor query box
    nodes_to_check,  \* work list of get_all_neighbor_bricks
    neighbors,       \* result list of get_all_neighbor_bricks
    rk,              \* per rank: its position in reduce_tree_images, my_node, self.image, owner labels
    inflight,        \* images sent (PT._send_array) and not yet received
    eager,           \* whether a send completes without waiting for its receive
    calls,           \* count_cost / count_volume called again: local v, the values returned
    bricks,          \* get_bricks: bricks_loaded, the saved grids, the data requests, the bricks made
    store            \* store_tree / load_tree: the file written, the form of self.tree

vars == <<hier, nprocs, my_rank, l_max, pc, err, tree, current_node,
          previous_node, domain_left_edge, domain_right_edge,
          my_l_corner, my_r_corner, claimed, volume, total_cost,
          viewpoint, visited, brick_id, periodic, le, re, nodes_to_check, neighbors,
          rk, inflight, eager, calls, bricks, store>>

\* The constructor's arguments and the module globals.
cfgVars == <<hier, nprocs, my_rank, l_max, domain_left_edge, domain_right_edge>>

\* The current/previous pair of the stack-free walks.
walkVars == <<current_node, previous_node>>

cornerVars == <<my_l_corner, my_r_corner, claimed>>

acctVars == <<volume, total_cost>>

\* State of the operations that run on a constructed tree.
viewVars == <<viewpoint, visited>>

nbrVars == <<brick_id, periodic, le, re, nodes_to_check, neighbors>>

compVars == <<rk, inflight, eager>>

extraVars == <<calls, bricks, store>>

otherVars == <<viewVars, nbrVars, compVars, extraVars>>

-----------------------------------------------------------------------------
(* Python values *)

\* Python's None for ids, axes, positions and grid references.
None == -1

\* Largest l_max argument tried.
MaxLMax == 2

\* Process counts tried (nprocs); 3 is the non-power-of-two.
ProcCounts == {1, 2, 3, 4}

\* v[d] for a 0-based axis d.
At(v, d) == v[d + 1]

Axes == {0, 1, 2}

Min2(a, b) == IF a < b THEN a ELSE b

Max2(a, b) == IF a > b THEN a ELSE b

RECURSIVE Pow2(_)
Pow2(n) == IF n <= 0 THEN 1 ELSE 2 * Pow2(n - 1)

\* long(na.log2(n)) for n >= 1.
RECURSIVE Log2Floor(_)
Log2Floor(n) == IF n <= 1 THEN 0 ELSE 1 + Log2Floor(n \div 2)

\* Elements of a sequence s at the (1-based) positions satisfying Keep.
RECURSIVE SelectIdx(_, _, _)
SelectIdx(s, keep, i) ==
    IF i > Len(s) THEN <<>>
    ELSE (IF i \in keep THEN <<s[i]>> ELSE <<>>) \o SelectIdx(s, keep, i + 1)

-----------------------------------------------------------------------------
(* The grid catalog: pf.hierarchy *)

pf_domain_left_edge == <<0, 0, 0>>

pf_domain_right_edge == <<16, 16, 16>>

Box(l_edge, r_edge, lvl) == [LeftEdge |-> l_edge, RightEdge |-> r_edge, Level |-> lvl]

\* Level-0 layouts covering the domain.
RootLayouts ==
    << << Box(<<0, 0, 0>>, <<16, 16, 16>>, 0) >>,
       << Box(<<0, 0, 0>>, <<8, 16, 16>>, 0), Box(<<8, 0, 0>>, <<16, 16, 16>>, 0) >>,
       << Box(<<0, 0, 0>>, <<8, 8, 16>>, 0), Box(<<8, 0, 0>>, <<16, 8, 16>>, 0),
          Box(<<0, 8, 0>>, <<8, 16, 16>>, 0), Box(<<8, 8, 0>>, <<16, 16, 16>>, 0) >>,
       << Box(<<0, 0, 0>>, <<4, 16, 16>>, 0), Box(<<4, 0, 0>>, <<8, 16, 16>>, 0),
          Box(<<8, 0, 0>>, <<12, 16, 16>>, 0), Box(<<12, 0, 0>>, <<16, 16, 16>>, 0) >> >>

\* Candidate level-1 grids.
ChildPool ==
    << Box(<<0, 0, 0>>, <<8, 8, 16>>, 1),
       Box(<<4, 4, 0>>, <<12, 12, 16>>, 1),
       Box(<<8, 0, 0>>, <<16, 4, 16>>, 1),
       Box(<<0, 8, 0>>, <<4, 16, 8>>, 1) >>

\* Candidate level-2 grids.
GrandPool ==
    << Box(<<2, 2, 0>>, <<6, 6, 16>>, 2) >>

\* Strict overlap of two boxes on every axis.
BoxesOverlap(a, b) ==
    \A d \in Axes : At(a.LeftEdge, d) < At(b.RightEdge, d)
                    /\ At(a.RightEdge, d) > At(b.LeftEdge, d)

BoxInside(a, b) ==
    \A d \in Axes : At(b.LeftEdge, d) <= At(a.LeftEdge, d)
                    /\ At(a.RightEdge, d) <= At(b.RightEdge, d)

\* The grids of a hierarchy in id order, each with its Children (ids).
WithChildren(boxes) ==
    [i \in 1..Len(boxes) |->
        [id |-> i, LeftEdge |-> boxes[i].LeftEdge, RightEdge |-> boxes[i].RightEdge,
         Level |-> boxes[i].Level,
         Children |-> SelectIdx([j \in 1..Len(boxes) |-> j],
                                {j \in 1..Len(boxes) :
                                    /\ boxes[j].Level = boxes[i].Level + 1
                                    /\ BoxInside(boxes[j], boxes[i])}, 1)]]

\* Properly nested: same-level grids do not overlap, every finer grid lies in
\* exactly one grid of the next coarser level.
ProperlyNested(boxes) ==
    /\ \A i, j \in 1..Len(boxes) :
          (i # j /\ boxes[i].Level = boxes[j].Level) => ~BoxesOverlap(boxes[i], boxes[j])
    /\ \A j \in 1..Len(boxes) :
          boxes[j].Level > 0 =>
             \E i \in 1..Len(boxes) : /\ boxes[i].Level = boxes[j].Level - 1
                                      /\ BoxInside(boxes[j], boxes[i])

AllBoxLists ==
    { RootLayouts[r] \o SelectIdx(ChildPool, cs, 1) \o SelectIdx(GrandPool, gs, 1) :
        r \in 1..Len(RootLayouts),
        cs \in SUBSET (1..Len(ChildPool)),
        gs \in SUBSET (1..Len(GrandPool)) }

Hierarchies ==
    { WithChildren(b) : b \in { x \in AllBoxLists : ProperlyNested(x) } }

\* Hierarchies that are not properly nested: the same level-0 grid twice, and
\* the same level-1 grid twice in one level-0 grid.
ImproperHierarchies ==
    { WithChildren(<< Box(<<0, 0, 0>>, <<16, 16, 16>>, 0),
                      Box(<<0, 0, 0>>, <<16, 16, 16>>, 0) >>),
      WithChildren(<< Box(<<0, 0, 0>>, <<16, 16, 16>>, 0),
                      Box(<<0, 0, 0>>, <<8, 8, 16>>, 1),
                      Box(<<0, 0, 0>>, <<8, 8, 16>>, 1) >>) }

\* Hierarchies with more than 20 level-0 grids: 8 x 3 tiles on y and z that
\* each span the domain on x, and 4 x 3 x 2 tiles with one level-1 grid.
BigHierarchies ==
    { WithChildren([i \in 1..24 |->
          Box(<<0, 2 * ((i - 1) % 8), IF (i - 1) \div 8 = 0 THEN 0 ELSE 4 * ((i - 1) \div 8)>>,
              <<16, 2 * ((i - 1) % 8) + 2, IF (i - 1) \div 8 = 2 THEN 16 ELSE 4 * ((i - 1) \div 8) + 4>>,
              0)]),
      WithChildren([i \in 1..24 |->
          Box(<<4 * ((i - 1) % 4),
                IF ((i - 1) \div 4) % 3 = 0 THEN 0 ELSE 4 * (((i - 1) \div 4) % 3),
                8 * ((i - 1) \div 12)>>,
              <<4 * ((i - 1) % 4) + 4,
                IF ((i - 1) \div 4) % 3 = 2 THEN 16 ELSE 4 * (((i - 1) \div 4) % 3) + 4,
                8 * ((i - 1) \div 12) + 8>>,
              0)] \o << Box(<<0, 0, 0>>, <<2, 2, 8>>, 1) >>) }

-----------------------------------------------------------------------------
(* Nodes *)

_lchild_id(id) == (id * 2) + 1

\* Variant: the right child numbered like the left one.
_rchild_id_as_left(id) == (id * 2) + 1

_rchild_id(id) == (id * 2) + 2

_parent_id(id) == (id - 1) \div 2

\* Variant: the caller's parent_grid is not stored on the new node.
MasterNodeNoParentGrid(id, parent, parent_grid, grids, l_corner, r_corner) ==
    [id |-> id, parent |-> parent, parent_grid |-> -1, grids |-> grids,
     l_corner |-> l_corner, r_corner |-> r_corner,
     split_ax |-> -1, split_pos |-> -1,
     left_child |-> -1, right_child |-> -1,
     cost |-> 0, owner |-> -1,
     grid |-> -1, grid_is_obj |-> FALSE, brick |-> -1,
     li |-> <<>>, ri |-> <<>>, dims |-> <<>>,
     attrs |-> {"grids", "parent", "parent_grid", "l_corner", "r_corner",
                "split_ax", "split_pos", "left_child", "right_child", "cost",
                "id", "grid", "brick", "li", "ri", "dims"}]

\* MasterNode.__init__, followed by the caller's assignments of id, parent,
\* parent_grid, grids and corners.  attrs is the set of attributes that exist
\* (del removes them; owner exists only once assigned).
MasterNode(id, parent, parent_grid, grids, l_corner, r_corner) ==
    [id |-> id, parent |-> parent, parent_grid |-> parent_grid, grids |-> grids,
     l_corner |-> l_corner, r_corner |-> r_corner,
     split_ax |-> None, split_pos |-> None,
     left_child |-> None, right_child |-> None,
     cost |-> 0, owner |-> None,
     grid |-> None, grid_is_obj |-> FALSE, brick |-> None,
     li |-> <<>>, ri |-> <<>>, dims |-> <<>>,
     attrs |-> {"grids", "parent", "parent_grid", "l_corner", "r_corner",
                "split_ax", "split_pos", "left_child", "right_child", "cost",
                "id", "grid", "brick", "li", "ri", "dims"}]

\* corner_bounds: the corner with its split_dim component replaced by split.
corner_bounds(split_dim, split, corner) == [corner EXCEPT ![split_dim + 1] = split]

\* Variant: the builder attributes are dropped but the grid is not bound.
set_leaf_unbound(thisnode, grid_id, leaf_l_corner, leaf_r_corner) ==
    [thisnode EXCEPT !.l_corner = leaf_l_corner,
                     !.r_corner = leaf_r_corner,
                     !.grids = <<>>, !.parent_grid = None,
                     !.attrs = @ \ {"grids", "parent_grid", "split_ax", "split_pos"}]

\* set_leaf: binds the grid id and drops the builder attributes.
set_leaf(thisnode, grid_id, leaf_l_corner, leaf_r_corner) ==
    [thisnode EXCEPT !.grid = grid_id,
                     !.l_corner = leaf_l_corner,
                     !.r_corner = leaf_r_corner,
                     !.grids = <<>>, !.parent_grid = None,
                     !.split_ax = None, !.split_pos = None,
                     !.attrs = @ \ {"grids", "parent_grid", "split_ax", "split_pos"}]

\* Variant: coming up from the right child the walk enters the left child again.
step_depth_reenters(t, current, previous) ==
    LET n == t[current] IN
    IF n.grid # -1 THEN <<n.parent, current>>
    ELSE IF n.parent = previous THEN
        IF n.left_child # -1 THEN <<n.left_child, current>>
        ELSE IF n.right_child # -1 THEN <<n.right_child, current>>
        ELSE <<n.parent, current>>
    ELSE IF n.left_child = previous THEN
        IF n.right_child # -1 THEN <<n.right_child, current>>
        ELSE <<n.parent, current>>
    ELSE IF n.right_child = previous THEN <<n.left_child, current>>
    ELSE <<current, previous>>

\* Variant: coming up from the left child the walk goes straight to the parent.
step_depth_skip_right(t, current, previous) ==
    LET n == t[current] IN
    IF n.grid # None THEN <<n.parent, current>>
    ELSE IF n.parent = previous THEN
        IF n.left_child # None THEN <<n.left_child, current>>
        ELSE IF n.right_child # None THEN <<n.right_child, current>>
        ELSE <<n.parent, current>>
    ELSE IF n.left_child = previous THEN <<n.parent, current>>
    ELSE IF n.right_child = previous THEN <<n.parent, current>>
    ELSE <<current, previous>>

\* step_depth: one step of the stack-free depth walk, <<current, previous>>.
step_depth(t, current, previous) ==
    LET n == t[current] IN
    IF n.grid # None THEN <<n.parent, current>>
    ELSE IF n.parent = previous THEN
        IF n.left_child # None THEN <<n.left_child, current>>
        ELSE IF n.right_child # None THEN <<n.right_child, current>>
        ELSE <<n.parent, current>>
    ELSE IF n.left_child = previous THEN
        IF n.right_child # None THEN <<n.right_child, current>>
        ELSE <<n.parent, current>>
    ELSE IF n.right_child = previous THEN <<n.parent, current>>
    ELSE <<current, previous>>

-----------------------------------------------------------------------------
(* AMRKDTree.__init__ and __build *)

\* Candidate count above which _build_dividing_node takes the longest axis.
BigGridCount == 20

\* hierarchy.max_level
max_level(h) == CHOOSE m \in {h[i].Level : i \in 1..Len(h)} :
                    \A i \in 1..Len(h) : h[i].Level <= m

\* self.l_max from the l_max argument (None = all levels).
SetLMax(h, arg) == IF arg = None THEN max_level(h) + 1
                   ELSE Min2(arg, max_level(h) + 1)

\* The requested regions tried: le/re = None (full domain) or given edges.
Regions == { <<pf_domain_left_edge, pf_domain_right_edge>>,
             <<pf_domain_left_edge, <<8, 16, 16>> >> }

\* na.clip(edge, pf.domain_left_edge, pf.domain_right_edge)
ClipEdge(e) == [k \in 1..3 |-> Max2(pf_domain_left_edge[k], Min2(e[k], pf_domain_right_edge[k]))]

\* Level-0 grids strictly overlapping the requested region, as grid ids.
RootGridsWanted(h, l_edge, r_edge) ==
    SelectIdx([j \in 1..Len(h) |-> j],
              {j \in 1..Len(h) :
                 /\ h[j].Level = 0
                 /\ \A d \in Axes : At(h[j].LeftEdge, d) < At(r_edge, d)
                 /\ \A d \in Axes : At(h[j].RightEdge, d) > At(l_edge, d)}, 1)

\* The nprocs > len(pf.h.grids) test of __init__.
\* Variant: the comparison taken against the level-0 grids only.
TooManyProcsRoot(h, np) == np > Cardinality({i \in 1..Len(h) : h[i].Level = 0})

TooManyProcs(h, np) == np > Len(h)

\* Variant: the hand-off test one level further down.
IsHandOffDeeper(id, np) == ((id + 1) \div Pow2(Log2Floor(np) + 1)) = 1

\* Variant: the shift applied to the id itself.
IsHandOffNoIncr(id, np) == (id \div Pow2(Log2Floor(np))) = 1

\* ((id + 1) >> par_tree_depth) == 1
IsHandOff(id, np) == ((id + 1) \div Pow2(Log2Floor(np))) = 1

\* Variant: every rank takes every hand-off node for its own.
IOwnAll(id, np, rank) == TRUE

\* (id + 1 - nprocs) is my_rank
IOwn(id, np, rank) == (id + 1 - np) = rank

\* thisgrid covers the node's box on all three axes.
GridCovers(g, n) ==
    \A d \in Axes : At(g.LeftEdge, d) <= At(n.l_corner, d)
                    /\ At(g.RightEdge, d) >= At(n.r_corner, d)

\* Children of thisgrid strictly intersecting the node's box.
IntersectingChildren(h, g, n) ==
    SelectIdx(g.Children,
              {k \in 1..Len(g.Children) :
                 /\ \A d \in Axes : At(h[g.Children[k]].LeftEdge, d) < At(n.r_corner, d)
                 /\ \A d \in Axes : At(h[g.Children[k]].RightEdge, d) > At(n.l_corner, d)}, 1)

\* data[:, side, d] of candidate k: side 0 = LeftEdge, 1 = RightEdge.
EdgeOf(h, gs, k, side, d) ==
    IF side = 0 THEN At(h[gs[k]].LeftEdge, d) ELSE At(h[gs[k]].RightEdge, d)

\* Variant: an edge on the face of the box counts as interior.
InteriorPairsClosed(h, n, d) ==
    {p \in (1..Len(n.grids)) \X {0, 1} :
        /\ At(n.l_corner, d) <= EdgeOf(h, n.grids, p[1], p[2], d)
        /\ EdgeOf(h, n.grids, p[1], p[2], d) <= At(n.r_corner, d)}

\* (candidate, side) pairs whose edge on axis d is strictly interior to the box.
InteriorPairs(h, n, d) ==
    {p \in (1..Len(n.grids)) \X {0, 1} :
        /\ At(n.l_corner, d) < EdgeOf(h, n.grids, p[1], p[2], d)
        /\ EdgeOf(h, n.grids, p[1], p[2], d) < At(n.r_corner, d)}

\* na.unique(...) of the interior edges on axis d.
UniqueChoices(h, n, d) == {EdgeOf(h, n.grids, p[1], p[2], d) : p \in InteriorPairs(h, n, d)}

\* na.argmax(r_corner - l_corner): the first axis of largest extent.
LongestAxis(n) ==
    CHOOSE d \in Axes :
        /\ \A e \in Axes : At(n.r_corner, e) - At(n.l_corner, e)
                             <= At(n.r_corner, d) - At(n.l_corner, d)
        /\ \A e \in Axes : e < d => At(n.r_corner, e) - At(n.l_corner, e)
                                      < At(n.r_corner, d) - At(n.l_corner, d)

\* The loop over d in range(3): the first axis with the most distinct choices.
BestUniqueAxis(h, n) ==
    CHOOSE d \in Axes :
        /\ \A e \in Axes : Cardinality(UniqueChoices(h, n, e)) <= Cardinality(UniqueChoices(h, n, d))
        /\ \A e \in Axes : e < d =>
              Cardinality(UniqueChoices(h, n, e)) < Cardinality(UniqueChoices(h, n, d))

best_dim(h, n) ==
    IF Len(n.grids) > BigGridCount THEN LongestAxis(n)
    ELSE IF \A d \in Axes : UniqueChoices(h, n, d) = {} THEN 0
    ELSE BestUniqueAxis(h, n)

\* len(best_choices): with duplicates in the large case, distinct otherwise
\* (best_dim is held in a variable: it is computed once).
NumChoices(h, n) ==
    LET Count(d) == IF Len(n.grids) > BigGridCount
                    THEN Cardinality(InteriorPairs(h, n, d))
                    ELSE Cardinality(UniqueChoices(h, n, d))
    IN  CHOOSE c \in {Count(d) : d \in {best_dim(h, n)}} : TRUE

\* best_choices[k] of the sorted choices (k a valid 0-based index).
ChoiceAt(h, n, k) ==
    LET Pick(d) ==
            LET S == UniqueChoices(h, n, d)
                P == InteriorPairs(h, n, d)
            IN  IF Len(n.grids) > BigGridCount
                THEN CHOOSE x \in S :
                       /\ Cardinality({p \in P : EdgeOf(h, n.grids, p[1], p[2], d) < x}) <= k
                       /\ k < Cardinality({p \in P : EdgeOf(h, n.grids, p[1], p[2], d) <= x})
                ELSE CHOOSE x \in S : Cardinality({y \in S : y < x}) = k
    IN  CHOOSE c \in {Pick(d) : d \in {best_dim(h, n)}} : TRUE

\* split = best_choices[(len(best_choices)-1)/2]
\* Variant: the upper median.
SplitIndexUpper(count) == count \div 2

SplitIndex(count) == (count - 1) \div 2

\* Variant: only the grids that end at or before the split.
less_ids_inside(h, n, d, split) ==
    {k \in 1..Len(n.grids) : EdgeOf(h, n.grids, k, 1, d) <= split}

less_ids(h, n, d, split) == {k \in 1..Len(n.grids) : EdgeOf(h, n.grids, k, 0, d) < split}

\* Variant: only the grids that begin at or after the split.
greater_ids_inside(h, n, d, split) ==
    {k \in 1..Len(n.grids) : split <= EdgeOf(h, n.grids, k, 0, d)}

greater_ids(h, n, d, split) == {k \in 1..Len(n.grids) : split < EdgeOf(h, n.grids, k, 1, d)}

\* Variant: the left child keeps the parent's right corner.
LeftChildBoxUncut(n, d, split) == <<n.l_corner, n.r_corner>>

\* <<l_corner, r_corner>> given to left_child.
LeftChildBox(n, d, split) == <<n.l_corner, corner_bounds(d, split, n.r_corner)>>

\* <<l_corner, r_corner>> given to right_child.
\* Variant: the right child keeps the parent's left corner.
RightChildBoxUncut(n, d, split) == <<n.l_corner, n.r_corner>>

RightChildBox(n, d, split) == <<corner_bounds(d, split, n.l_corner), n.r_corner>>

\* _build_dividing_node on node n (with at least one choice): the tree with n
\* turned into a split node and its two children added (best_dim and split are
\* held in variables: each is computed once).
_build_dividing_node(h, t, n) ==
    LET Divided(d, split) ==
            LET left == MasterNode(_lchild_id(n.id), n.id, n.parent_grid,
                                   SelectIdx(n.grids, less_ids(h, n, d, split), 1),
                                   LeftChildBox(n, d, split)[1], LeftChildBox(n, d, split)[2])
                right == MasterNode(_rchild_id(n.id), n.id, n.parent_grid,
                                    SelectIdx(n.grids, greater_ids(h, n, d, split), 1),
                                    RightChildBox(n, d, split)[1], RightChildBox(n, d, split)[2])
                me == [n EXCEPT !.split_ax = d, !.split_pos = split,
                                !.left_child = left.id, !.right_child = right.id,
                                !.grids = <<>>, !.parent_grid = None,
                                !.attrs = @ \ {"grids", "parent_grid", "brick", "li", "ri", "dims"}]
            IN  (left.id :> left) @@ (right.id :> right) @@ [t EXCEPT ![n.id] = me]
    IN  CHOOSE t2 \in {Divided(d, split) :
                          d \in {best_dim(h, n)},
                          split \in {ChoiceAt(h, n, SplitIndex(NumChoices(h, n)))}} : TRUE

\* No count_cost / count_volume call besides the constructor's yet.
NoCalls == [v |-> 0, cost_returns |-> <<>>, volume_returns |-> <<>>]

\* self.bricks_loaded = False, self.bricks = [] (lines 260-262).
NoBricks == [bricks_loaded |-> FALSE, current_saved_grids |-> <<>>,
             requests |-> <<>>, made |-> <<>>, ncalls |-> 0, yielded |-> <<>>]

\* A file name nothing has been written to.
NoFile == [exists |-> FALSE, names |-> {}, kd_ids |-> <<>>, rows |-> <<>>, bricks |-> {}]

\* self.tree is the MasterNode graph; no file written, no kd-bricks call made.
NoStore == [tree_form |-> "nodes", file |-> NoFile, table |-> <<>>, before |-> <<>>,
            store_err |-> "", load_err |-> "", last |-> "",
            mode |-> "", kd_file |-> "", open_fails |-> {}, read_failed |-> FALSE,
            send_eager |-> FALSE, ranks |-> <<>>, tokens |-> {}, opened |-> <<>>]

\* The node table with only the root, as __build sets it up.
RootTree(h, l_edge, r_edge) ==
    (0 :> MasterNode(0, None, None, RootGridsWanted(h, l_edge, r_edge), l_edge, r_edge))

\* The state at the start of the constructor, for a set of grid hierarchies.
InitWith(hierarchies) ==
    /\ hier \in hierarchies
    /\ nprocs \in ProcCounts
    /\ my_rank \in 0..(nprocs - 1)
    /\ \E arg \in {None} \cup (0..MaxLMax) : l_max = SetLMax(hier, arg)
    /\ \E reg \in Regions :
          /\ domain_left_edge = ClipEdge(reg[1])
          /\ domain_right_edge = ClipEdge(reg[2])
    /\ my_l_corner = domain_left_edge
    /\ my_r_corner = domain_right_edge
    /\ claimed = {}
    /\ pc = "init"
    /\ err = ""
    /\ tree = <<>>
    /\ current_node = None
    /\ previous_node = None
    /\ volume = 0
    /\ total_cost = 0
    /\ viewpoint = <<>>
    /\ visited = <<>>
    /\ brick_id = None
    /\ periodic = FALSE
    /\ le = <<>>
    /\ re = <<>>
    /\ nodes_to_check = <<>>
    /\ neighbors = <<>>
    /\ rk = <<>>
    /\ inflight = {}
    /\ eager = FALSE
    /\ calls = NoCalls
    /\ bricks = NoBricks
    /\ store = NoStore

Init == InitWith(Hierarchies)

\* __init__ up to the call of __build: the process-count test, then the root.
Construct ==
    /\ pc = "init"
    /\ IF TooManyProcs(hier, nprocs)
       THEN /\ pc' = "failed"
            /\ err' = "KeyError"
            /\ UNCHANGED <<tree, current_node>>
       ELSE /\ pc' = "build"
            /\ err' = ""
            /\ tree' = RootTree(hier, domain_left_edge, domain_right_edge)
            /\ current_node' = 0
    /\ UNCHANGED <<cfgVars, cornerVars, acctVars, previous_node, otherVars>>

\* The loop of __build ends when current_node is None; __init__ goes on to count_cost.
BuildEnd ==
    /\ pc = "build"
    /\ current_node = None
    /\ pc' = "count_cost"
    /\ current_node' = 0
    /\ previous_node' = None
    /\ UNCHANGED <<cfgVars, cornerVars, acctVars, err, tree, otherVars>>

Building == pc = "build" /\ current_node # None

\* The step_depth call ending a loop iteration, on the updated tree t.
StepFrom(t) ==
    /\ current_node' = step_depth(t, current_node, previous_node)[1]
    /\ previous_node' = step_depth(t, current_node, previous_node)[2]

\* This rank's hand-off node: record its bounds and build on.
ClaimCorners ==
    IF IsHandOff(current_node, nprocs)
    THEN /\ my_l_corner' = tree[current_node].l_corner
         /\ my_r_corner' = tree[current_node].r_corner
         /\ claimed' = claimed \cup {current_node}
    ELSE UNCHANGED cornerVars

\* The node falls through the hand-off test (not a hand-off node, or mine).
BuildsHere ==
    /\ Building
    /\ "grids" \in tree[current_node].attrs
    /\ IsHandOff(current_node, nprocs) => IOwn(current_node, nprocs, my_rank)

\* try: ngrids = current_node.grids / except: step on.
BuildSkip ==
    /\ Building
    /\ "grids" \notin tree[current_node].attrs
    /\ StepFrom(tree)
    /\ UNCHANGED <<cfgVars, cornerVars, acctVars, pc, err, tree, otherVars>>

\* A hand-off node of another rank: record its owner, do not descend.
BuildRemote ==
    /\ Building
    /\ "grids" \in tree[current_node].attrs
    /\ IsHandOff(current_node, nprocs)
    /\ ~IOwn(current_node, nprocs, my_rank)
    /\ tree' = [tree EXCEPT ![current_node].owner = current_node + 1 - nprocs,
                            ![current_node].attrs = @ \cup {"owner"}]
    /\ StepFrom(tree')
    /\ UNCHANGED <<cfgVars, cornerVars, acctVars, pc, err, otherVars>>

SingleCovering(n) == Len(n.grids) = 1 /\ GridCovers(hier[n.grids[1]], n)

\* Variant: the children are handed down whatever l_max is.
DescendChildrenAnyLevel(n) == IntersectingChildren(hier, hier[n.grids[1]], n)

\* The children the single covering grid hands down (none past l_max).
DescendChildren(n) ==
    LET g == hier[n.grids[1]] IN
    IF Len(g.Children) > 0 /\ g.Level < l_max
    THEN IntersectingChildren(hier, g, n) ELSE <<>>

\* Single covering grid with finer children: take the children, look again.
BuildDescend ==
    /\ BuildsHere
    /\ SingleCovering(tree[current_node])
    /\ DescendChildren(tree[current_node]) # <<>>
    /\ tree' = [tree EXCEPT ![current_node].grids = DescendChildren(tree[current_node]),
                            ![current_node].parent_grid = tree[current_node].grids[1]]
    /\ ClaimCorners
    /\ UNCHANGED <<cfgVars, walkVars, acctVars, pc, err, otherVars>>

\* Single covering grid without finer children: a leaf of that grid.
BuildLeaf ==
    /\ BuildsHere
    /\ SingleCovering(tree[current_node])
    /\ DescendChildren(tree[current_node]) = <<>>
    /\ tree' = [tree EXCEPT ![current_node] =
                   set_leaf(@, hier[@.grids[1]].id, @.l_corner, @.r_corner)]
    /\ StepFrom(tree')
    /\ ClaimCorners
    /\ UNCHANGED <<cfgVars, acctVars, pc, err, otherVars>>

\* No candidate grid: the volume belongs to parent_grid (None.id raises).
BuildEmptyLeaf ==
    /\ BuildsHere
    /\ Len(tree[current_node].grids) = 0
    /\ IF tree[current_node].parent_grid = None
       THEN /\ pc' = "failed"
            /\ err' = "AttributeError"
            /\ UNCHANGED <<walkVars, tree>>
       ELSE /\ tree' = [tree EXCEPT ![current_node] =
                           set_leaf(@, hier[@.parent_grid].id, @.l_corner, @.r_corner)]
            /\ StepFrom(tree')
            /\ UNCHANGED <<pc, err>>
    /\ ClaimCorners
    /\ UNCHANGED <<cfgVars, acctVars, otherVars>>

\* Several candidates, or one that does not cover the box: divide the node
\* (indexing an empty best_choices raises).
BuildDivide ==
    /\ BuildsHere
    /\ ~SingleCovering(tree[current_node])
    /\ Len(tree[current_node].grids) # 0
    /\ IF NumChoices(hier, tree[current_node]) = 0
       THEN /\ pc' = "failed"
            /\ err' = "IndexError"
            /\ UNCHANGED <<walkVars, tree>>
       ELSE /\ tree' = _build_dividing_node(hier, tree, tree[current_node])
            /\ StepFrom(tree')
            /\ UNCHANGED <<pc, err>>
    /\ ClaimCorners
    /\ UNCHANGED <<cfgVars, acctVars, otherVars>>

\* One iteration of the while loop of __build as rank would run it on the same
\* grids, on st = [tree, current, previous, err].
BuildStepOf(rank, st) ==
    LET t == st.tree
        c == st.current
        n == t[c]
        stepped(t2) == [tree |-> t2, current |-> step_depth(t2, c, st.previous)[1],
                        previous |-> step_depth(t2, c, st.previous)[2], err |-> ""]
    IN  IF "grids" \notin n.attrs THEN stepped(t)
        ELSE IF IsHandOff(c, nprocs) /\ ~IOwn(c, nprocs, rank)
        THEN stepped([t EXCEPT ![c].owner = c + 1 - nprocs, ![c].attrs = @ \cup {"owner"}])
        ELSE IF SingleCovering(n)
        THEN IF DescendChildren(n) # <<>>
             THEN [st EXCEPT !.tree = [t EXCEPT ![c].grids = DescendChildren(n),
                                                ![c].parent_grid = n.grids[1]]]
             ELSE stepped([t EXCEPT ![c] = set_leaf(@, hier[@.grids[1]].id,
                                                    @.l_corner, @.r_corner)])
        ELSE IF Len(n.grids) = 0
        THEN IF n.parent_grid = None
             THEN [st EXCEPT !.err = "AttributeError"]
             ELSE stepped([t EXCEPT ![c] = set_leaf(@, hier[@.parent_grid].id,
                                                    @.l_corner, @.r_corner)])
        ELSE IF NumChoices(hier, n) = 0
             THEN [st EXCEPT !.err = "IndexError"]
             ELSE stepped(_build_dividing_node(hier, t, n))

\* The while loop of __build run to its end (or to the exception).
RECURSIVE RunBuild(_, _)
RunBuild(rank, st) ==
    IF st.err # "" \/ st.current = None THEN st
    ELSE RunBuild(rank, BuildStepOf(rank, st))

\* What __build leaves on rank for the grids and region of this run.
TreeBuiltBy(rank) ==
    RunBuild(rank, [tree |-> RootTree(hier, domain_left_edge, domain_right_edge),
                    current |-> 0, previous |-> None, err |-> ""])

-----------------------------------------------------------------------------
(* count_cost, set_leaf_props, count_volume *)

\* .astype('int32') of a quotient: truncation toward zero.
TruncDiv(a, b) == IF a >= 0 THEN a \div b ELSE 0 - ((0 - a) \div b)

\* grid.dds: the cell width of a grid of the given level (4 at level 0).
dds(h, level) == 4 \div Pow2(level)

\* na.prod of a 3-vector.
Prod3(v) == v[1] * v[2] * v[3]

\* set_leaf_props: grid id -> grid object, index range, dims and cost.
set_leaf_props(h, n) ==
    LET g == h[n.grid]
        w == dds(h, g.Level)
        li == [k \in 1..3 |-> TruncDiv(n.l_corner[k] - g.LeftEdge[k], w)]
        ri == [k \in 1..3 |-> TruncDiv(n.r_corner[k] - g.LeftEdge[k], w)]
        dims == [k \in 1..3 |-> ri[k] - li[k]]
    IN  [n EXCEPT !.grid_is_obj = TRUE, !.li = li, !.ri = ri, !.dims = dims,
                  !.cost = TruncDiv(Prod3(dims), Pow2(2 * g.Level)),
                  !.attrs = @ \cup {"li", "ri", "dims"}]

\* Variant: the right child's cost is not added.
BranchCostLeftOnly(t, n) ==
    IF n.left_child # None THEN t[n.left_child].cost ELSE 0

\* node.cost = left_child.cost (0 when absent); node.cost += right_child.cost.
BranchCost(t, n) ==
    (IF n.left_child # None THEN t[n.left_child].cost ELSE 0)
    + (IF n.right_child # None THEN t[n.right_child].cost ELSE 0)

\* na.prod(node.r_corner - node.l_corner)
\* Variant: the extents added up instead of multiplied.
BoxVolumeSum(l_corner, r_corner) ==
    (r_corner[1] - l_corner[1]) + (r_corner[2] - l_corner[2]) + (r_corner[3] - l_corner[3])

BoxVolume(l_corner, r_corner) ==
    Prod3([k \in 1..3 |-> r_corner[k] - l_corner[k]])

\* One iteration of the loop over depth_traverse() in count_cost.
CostVisit ==
    /\ pc = "count_cost"
    /\ current_node # None
    /\ IF tree[current_node].grid = None
       THEN /\ tree' = [tree EXCEPT ![current_node].cost = BranchCost(tree, tree[current_node])]
            /\ UNCHANGED <<pc, err>>
            /\ StepFrom(tree')
       ELSE IF tree[current_node].grid_is_obj
       THEN /\ pc' = "failed"
            /\ err' = "TypeError"
            /\ UNCHANGED <<walkVars, tree>>
       ELSE /\ tree' = [tree EXCEPT ![current_node] = set_leaf_props(hier, @)]
            /\ UNCHANGED <<pc, err>>
            /\ StepFrom(tree')
    /\ UNCHANGED <<cfgVars, cornerVars, acctVars, otherVars>>

\* count_cost returns self.tree.cost; __init__ goes on to count_volume.
CostEnd ==
    /\ pc = "count_cost"
    /\ current_node = None
    /\ total_cost' = tree[0].cost
    /\ pc' = "count_volume"
    /\ volume' = 0
    /\ current_node' = 0
    /\ previous_node' = None
    /\ UNCHANGED <<cfgVars, cornerVars, err, tree, otherVars>>

\* One iteration of the loop over depth_traverse() in count_volume.
VolumeVisit ==
    /\ pc = "count_volume"
    /\ current_node # None
    /\ volume' = IF tree[current_node].grid # None
                 THEN volume + BoxVolume(tree[current_node].l_corner,
                                         tree[current_node].r_corner)
                 ELSE volume
    /\ StepFrom(tree)
    /\ UNCHANGED <<cfgVars, cornerVars, pc, err, tree, total_cost, otherVars>>

\* count_volume returns v; __init__ stores it in self.volume and returns.
VolumeEnd ==
    /\ pc = "count_volume"
    /\ current_node = None
    /\ pc' = "ready"
    /\ UNCHANGED <<cfgVars, walkVars, cornerVars, acctVars, err, tree, otherVars>>

\* AMRKDTree.__init__ from start to return.
ConstructorNext ==
    \/ Construct
    \/ BuildSkip
    \/ BuildRemote
    \/ BuildDescend
    \/ BuildLeaf
    \/ BuildEmptyLeaf
    \/ BuildDivide
    \/ BuildEnd
    \/ CostVisit
    \/ CostEnd
    \/ VolumeVisit
    \/ VolumeEnd

-----------------------------------------------------------------------------
(* viewpoint_traverse / step_viewpoint *)

\* Viewpoints tried: domain corners, a point on the split planes, a generic point.
Viewpoints == { <<0, 0, 0>>, <<16, 16, 16>>, <<8, 8, 8>>, <<3, 12, 5>> }

\* step_viewpoint: one step of the viewpoint-ordered walk, <<current, previous>>.
step_viewpoint(t, current, previous, vp) ==
    LET n == t[current] IN
    IF n.grid # None THEN <<n.parent, current>>
    ELSE IF n.split_ax = None THEN <<n.parent, current>>
    ELSE IF n.parent = previous THEN
        IF At(vp, n.split_ax) < n.split_pos
        THEN IF n.left_child # None THEN <<n.left_child, current>>
             ELSE <<current, n.left_child>>
        ELSE IF n.right_child # None THEN <<n.right_child, current>>
             ELSE <<current, n.right_child>>
    ELSE IF n.left_child = previous THEN
        IF At(vp, n.split_ax) < n.split_pos
        THEN IF n.right_child # None THEN <<n.right_child, current>>
             ELSE <<n.parent, current>>
        ELSE <<n.parent, current>>
    ELSE IF n.right_child = previous THEN
        IF At(vp, n.split_ax) > n.split_pos
        THEN IF n.left_child # None THEN <<n.left_child, current>>
             ELSE <<n.parent, current>>
        ELSE <<n.parent, current>>
    ELSE <<current, previous>>

\* traverse(back_center, front_center, image): viewpoint = front_center, the walk starts.
ViewStart ==
    /\ pc = "ready"
    /\ \E vp \in Viewpoints : viewpoint' = vp
    /\ visited' = <<>>
    /\ current_node' = 0
    /\ previous_node' = None
    /\ pc' = "viewpoint_traverse"
    /\ bricks' = [bricks EXCEPT !.yielded = <<>>]
    /\ UNCHANGED <<cfgVars, cornerVars, acctVars, err, tree, nbrVars, compVars, calls, store>>

\* One iteration of the loop of traverse over viewpoint_traverse: the node is
\* yielded by the walk, node.brick is yielded to the caller when node.grid is
\* not None, then step_viewpoint.
ViewVisit ==
    /\ pc = "viewpoint_traverse"
    /\ current_node # None
    /\ visited' = Append(visited, current_node)
    /\ bricks' = [bricks EXCEPT !.yielded = IF tree[current_node].grid # None
                                            THEN Append(@, tree[current_node].brick)
                                            ELSE @]
    /\ current_node' = step_viewpoint(tree, current_node, previous_node, viewpoint)[1]
    /\ previous_node' = step_viewpoint(tree, current_node, previous_node, viewpoint)[2]
    /\ UNCHANGED <<cfgVars, cornerVars, acctVars, pc, err, tree, viewpoint, nbrVars, compVars,
                   calls, store>>

\* The generator is exhausted.
ViewEnd ==
    /\ pc = "viewpoint_traverse"
    /\ current_node = None
    /\ pc' = "traversed"
    /\ UNCHANGED <<cfgVars, walkVars, cornerVars, acctVars, err, tree, viewVars, nbrVars, compVars, extraVars>>

\* The full region with every level, the case the traversals are run on.
InitView ==
    /\ Init
    /\ domain_right_edge = pf_domain_right_edge
    /\ l_max = max_level(hier) + 1

SpecView ==
    InitView /\ [][ConstructorNext \/ ViewStart \/ ViewVisit \/ ViewEnd]_vars

-----------------------------------------------------------------------------
(* get_all_neighbor_bricks / _overlap_check *)

\* pf.h.get_smallest_dx(): the cell width of the finest level present.
get_smallest_dx(h) == dds(h, max_level(h))

\* Variant: boxes that only touch count as overlapping.
TouchingOverlap(l_edge, r_edge, brick) ==
    \A d \in Axes : At(l_edge, d) <= At(brick.r_corner, d)
                    /\ At(r_edge, d) >= At(brick.l_corner, d)

\* The strict overlap test of _overlap_check on all three axes.
StrictOverlap(l_edge, r_edge, brick) ==
    \A d \in Axes : At(l_edge, d) < At(brick.r_corner, d)
                    /\ At(r_edge, d) > At(brick.l_corner, d)

\* The loop body of _overlap_check for axis i: <<myle[i], myre[i]>> afterwards.
WrapAxis(lo, hi, i) ==
    LET w == At(pf_domain_right_edge, i) - At(pf_domain_left_edge, i)
        lo1 == IF lo < At(pf_domain_left_edge, i) THEN lo + w ELSE lo
        hi1 == IF lo < At(pf_domain_left_edge, i) THEN hi + w ELSE hi
    IN  IF hi1 > At(pf_domain_right_edge, i) THEN <<lo1 - w, hi1 - w>> ELSE <<lo1, hi1>>

_overlap_check(l_edge, r_edge, brick, per) ==
    \/ StrictOverlap(l_edge, r_edge, brick)
    \/ /\ per
       /\ StrictOverlap([k \in 1..3 |-> WrapAxis(l_edge[k], r_edge[k], k - 1)[1]],
                        [k \in 1..3 |-> WrapAxis(l_edge[k], r_edge[k], k - 1)[2]], brick)

\* get_all_neighbor_bricks(brick_id, periodic=...): the default query box.
NbrStart ==
    /\ pc = "ready"
    /\ \E b \in {i \in DOMAIN tree : tree[i].grid # None} :
          /\ brick_id' = b
          /\ le' = [k \in 1..3 |-> tree[b].l_corner[k] - get_smallest_dx(hier)]
          /\ re' = [k \in 1..3 |-> tree[b].r_corner[k] + get_smallest_dx(hier)]
    /\ periodic' \in BOOLEAN
    /\ nodes_to_check' = <<0>>
    /\ neighbors' = <<>>
    /\ pc' = "neighbors"
    /\ UNCHANGED <<cfgVars, walkVars, cornerVars, acctVars, err, tree, viewVars, compVars, extraVars>>

\* One iteration of the while loop: pop a node, test its children or collect it.
NbrStep ==
    /\ pc = "neighbors"
    /\ Len(nodes_to_check) > 0
    /\ LET thisnode == Head(nodes_to_check)
           rest == Tail(nodes_to_check)
           l == _lchild_id(thisnode)
           r == _rchild_id(thisnode)
       IN  IF tree[thisnode].grid = None
           THEN IF l \notin DOMAIN tree \/ r \notin DOMAIN tree
                THEN /\ pc' = "failed"
                     /\ err' = "KeyError"
                     /\ UNCHANGED <<nodes_to_check, neighbors>>
                ELSE /\ nodes_to_check' =
                          rest \o (IF _overlap_check(le, re, tree[l], periodic)
                                   THEN <<l>> ELSE <<>>)
                               \o (IF _overlap_check(le, re, tree[r], periodic)
                                   THEN <<r>> ELSE <<>>)
                     /\ UNCHANGED <<pc, err, neighbors>>
           ELSE /\ neighbors' = Append(neighbors, thisnode)
                /\ nodes_to_check' = rest
                /\ UNCHANGED <<pc, err>>
    /\ UNCHANGED <<cfgVars, walkVars, cornerVars, acctVars, tree, viewVars, compVars, extraVars,
                   brick_id, periodic, le, re>>

\* The work list is empty: return neighbors.
NbrEnd ==
    /\ pc = "neighbors"
    /\ Len(nodes_to_check) = 0
    /\ pc' = "neighbors_done"
    /\ UNCHANGED <<cfgVars, walkVars, cornerVars, acctVars, err, tree, viewVars, nbrVars, compVars, extraVars>>

\* One or two processes: the node table is whole for one, cut at the hand-off nodes for two.
InitNbr ==
    /\ InitView
    /\ nprocs <= 2

SpecNbr ==
    InitNbr /\ [][ConstructorNext \/ NbrStart \/ NbrStep \/ NbrEnd]_vars

-----------------------------------------------------------------------------
(* reduce_tree_images: which sibling is in front *)

\* front: the child on the viewpoint's side of the parent's split plane.
FrontChild(parent, vp) ==
    IF At(vp, parent.split_ax) <= parent.split_pos
    THEN parent.left_child ELSE parent.right_child

\* back: the other child.
BackChild(parent, vp) ==
    IF At(vp, parent.split_ax) <= parent.split_pos
    THEN parent.right_child ELSE parent.left_child

\* Process counts the compositor is run with, and the ranks they use.
CompProcCounts == {1, 2, 4}

AllRanks == 0..3

\* The channel value 1.0, in the fixed-point unit of the image values.
Opaque == 256

\* Per-rank rendered images (one pixel, three channels): an empty one and a
\* coloured one; either every rank's image is coloured or exactly one is.
ImagePool == { <<0, 0, 0>>, <<0, Opaque, Opaque>> }

ImageAssignments(np) ==
    { imgs \in [0..(np - 1) -> ImagePool] :
        \/ \A r \in 0..(np - 1) : imgs[r] = <<0, Opaque, Opaque>>
        \/ Cardinality({r \in 0..(np - 1) : imgs[r] = <<0, Opaque, Opaque>>}) = 1 }

\* The same with a half-opaque image in place of the coloured one.
HalfOpaqueAssignments(np) ==
    LET HalfOpaque == <<Opaque \div 2, 0, 0>>
    IN  { imgs \in [0..(np - 1) -> {<<0, 0, 0>>, HalfOpaque}] :
            \/ \A r \in 0..(np - 1) : imgs[r] = HalfOpaque
            \/ Cardinality({r \in 0..(np - 1) : imgs[r] = HalfOpaque}) = 1 }

\* na.sum(image, axis=2)
Sum3(img) == img[1] + img[2] + img[3]

\* ta = 1.0 - sum; ta[ta < 0.0] = 0.0
Transparency(img) == Max2(Opaque - Sum3(img), 0)

\* One pass of the loop over i at lines 882-890: ta is taken from self.image as
\* it is at that pass, then channel i of self.image is overwritten.
FrontMergeChannel(image, arr2, i) ==
    [image EXCEPT ![i] = image[i] + (Transparency(image) * arr2[i]) \div Opaque]

\* The front owner receives the back image arr2 (lines 880-890).
MergeFrontReceives(image, arr2) ==
    FrontMergeChannel(FrontMergeChannel(FrontMergeChannel(image, arr2, 1), arr2, 2), arr2, 3)

\* The back owner receives the front image arr2 (lines 904-914).
MergeBackReceives(image, arr2) ==
    [i \in 1..3 |-> arr2[i] + (Transparency(arr2) * image[i]) \div Opaque]

\* int(na.log2(nprocs))
rounds(np) == Log2Floor(np)

\* path[i+1] of na.binary_repr(nprocs + my_rank), for the loop index i.
PathBit(np, rank, i) == ((np + rank) \div Pow2(rounds(np) - (i + 1))) % 2

\* The labelling loop (lines 853-861) from index i on: <<my_node, owner labels>>.
RECURSIVE LabelPath(_, _, _, _, _, _)
LabelPath(t, np, rank, i, node, owner) ==
    IF i >= rounds(np) THEN <<node, owner>>
    ELSE LET l == t[node].left_child
             r == t[node].right_child
             owner2 == (l :> owner[node])
                       @@ (r :> (owner[node] + Pow2(rounds(np) - (i + 1)))) @@ owner
         IN  LabelPath(t, np, rank, i + 1,
                       IF PathBit(np, rank, i) = 0 THEN l ELSE r, owner2)

\* if my_rank == my_node.parent.owner: go on with the parent; else: break
\* Variant: every rank goes on with the parent.
ContinuesAlways(rank, parentOwner) == TRUE

\* Variant: every rank stops after its first round.
ContinuesNever(rank, parentOwner) == FALSE

Continues(rank, parentOwner) == rank = parentOwner

\* Split axis and position of the nodes above the hand-off depth: the trees
\* built from the 2x2 and from the four-slab root layouts.
SkeletonSplits ==
    { (0 :> <<0, 8>>) @@ (1 :> <<1, 8>>) @@ (2 :> <<1, 8>>),
      (0 :> <<0, 8>>) @@ (1 :> <<0, 4>>) @@ (2 :> <<0, 12>>) }

\* The tree down to the hand-off depth, as every rank's __build leaves it.
RECURSIVE SkelNodes(_, _, _, _, _, _)
SkelNodes(id, parent, l_corner, r_corner, depth, sp) ==
    IF depth = 0 THEN (id :> MasterNode(id, parent, None, <<>>, l_corner, r_corner))
    ELSE (id :> [MasterNode(id, parent, None, <<>>, l_corner, r_corner) EXCEPT
                    !.split_ax = sp[id][1], !.split_pos = sp[id][2],
                    !.left_child = _lchild_id(id), !.right_child = _rchild_id(id),
                    !.attrs = @ \ {"grids", "parent_grid", "brick", "li", "ri", "dims"}])
         @@ SkelNodes(_lchild_id(id), id, l_corner,
                      corner_bounds(sp[id][1], sp[id][2], r_corner), depth - 1, sp)
         @@ SkelNodes(_rchild_id(id), id,
                      corner_bounds(sp[id][1], sp[id][2], l_corner), r_corner, depth - 1, sp)

InitCompWith(half) ==
    /\ hier = <<>>
    /\ nprocs \in CompProcCounts
    /\ my_rank = 0
    /\ l_max = 0
    /\ domain_left_edge = pf_domain_left_edge
    /\ domain_right_edge = pf_domain_right_edge
    /\ my_l_corner = domain_left_edge
    /\ my_r_corner = domain_right_edge
    /\ claimed = {}
    /\ pc = "reduce"
    /\ err = ""
    /\ \E sp \in SkeletonSplits :
          tree = SkelNodes(0, None, pf_domain_left_edge, pf_domain_right_edge,
                           rounds(nprocs), sp)
    /\ current_node = None
    /\ previous_node = None
    /\ volume = 0
    /\ total_cost = 0
    /\ viewpoint \in Viewpoints
    /\ visited = <<>>
    /\ brick_id = None
    /\ periodic = FALSE
    /\ le = <<>>
    /\ re = <<>>
    /\ nodes_to_check = <<>>
    /\ neighbors = <<>>
    /\ \E imgs \in IF half THEN HalfOpaqueAssignments(nprocs) ELSE ImageAssignments(nprocs) :
          rk = [r \in 0..(nprocs - 1) |->
                  [pc |-> "start", my_node |-> 0, image |-> imgs[r], owner |-> <<>>,
                   thisround |-> 0, sent |-> 0, merged |-> <<r>>,
                   lastFront |-> <<>>, lastBack |-> <<>>,
                   run |-> 1, rendered |-> imgs[r], first |-> <<>>, image_arg |-> "image"]]
    /\ inflight = {}
    /\ eager \in BOOLEAN
    /\ calls = NoCalls
    /\ bricks = NoBricks
    /\ store = NoStore

InitComp == InitCompWith(FALSE)

nonCompVars == <<cfgVars, walkVars, cornerVars, acctVars, pc, err, tree, viewVars, nbrVars,
                 extraVars>>

\* The parent of my_node and its two children as the rank labels them.
ParentOf(r) == tree[tree[rk[r].my_node].parent]

FrontOwner(r) == rk[r].owner[FrontChild(ParentOf(r), viewpoint)]

\* Variant: the front child's owner taken for the back owner.
BackOwnerAsFront(r) == rk[r].owner[FrontChild(ParentOf(r), viewpoint)]

BackOwner(r) == rk[r].owner[BackChild(ParentOf(r), viewpoint)]

ParentOwner(r) == rk[r].owner[ParentOf(r).id]

\* PT._send_array(self.image.ravel(), dst, tag=my_rank): the message posted.
SentMessage(r, dst) ==
    [src |-> r, dst |-> dst, tag |-> r, n |-> rk[r].sent + 1,
     image |-> rk[r].image, merged |-> rk[r].merged]

\* PT._recv_array(src, tag=src): the messages a receive posted by r can take.
Receivable(r, src) == {m \in inflight : m.dst = r /\ m.src = src /\ m.tag = src}

\* Lines 849-861: label the owners along this rank's path, reach its hand-off node.
CompLabel(r) ==
    /\ r < nprocs
    /\ rk[r].pc = "start"
    /\ LET res == LabelPath(tree, nprocs, r, 0, 0, (0 :> 0))
       IN  rk' = [rk EXCEPT ![r].my_node = res[1], ![r].owner = res[2],
                            ![r].thisround = rounds(nprocs),
                            ![r].pc = IF rounds(nprocs) = 0 THEN "returned" ELSE "front_if"]
    /\ UNCHANGED <<nonCompVars, inflight, eager>>

\* front.owner == my_rank and front.owner == parent.owner: receive the back image, merge.
CompFrontRecv(r) ==
    /\ r < nprocs
    /\ rk[r].pc = "front_if"
    /\ FrontOwner(r) = r
    /\ FrontOwner(r) = ParentOwner(r)
    /\ \E m \in Receivable(r, BackOwner(r)) :
          /\ rk' = [rk EXCEPT ![r].image = MergeFrontReceives(rk[r].image, m.image),
                              ![r].lastFront = rk[r].image, ![r].lastBack = m.image,
                              ![r].merged = rk[r].merged \o m.merged,
                              ![r].pc = "back_if"]
          /\ inflight' = inflight \ {m}
    /\ UNCHANGED <<nonCompVars, eager>>

\* front.owner == my_rank but not the parent's owner: send my image to the back owner.
CompFrontSend(r) ==
    /\ r < nprocs
    /\ rk[r].pc = "front_if"
    /\ FrontOwner(r) = r
    /\ FrontOwner(r) # ParentOwner(r)
    /\ inflight' = inflight \cup {SentMessage(r, BackOwner(r))}
    /\ rk' = [rk EXCEPT ![r].sent = @ + 1, ![r].pc = "front_sending"]
    /\ UNCHANGED <<nonCompVars, eager>>

\* front.owner is another rank: the first if is skipped.
CompFrontSkip(r) ==
    /\ r < nprocs
    /\ rk[r].pc = "front_if"
    /\ FrontOwner(r) # r
    /\ rk' = [rk EXCEPT ![r].pc = "back_if"]
    /\ UNCHANGED <<nonCompVars, inflight, eager>>

\* back.owner == my_rank and front.owner == parent.owner: send my image to the front owner.
CompBackSend(r) ==
    /\ r < nprocs
    /\ rk[r].pc = "back_if"
    /\ BackOwner(r) = r
    /\ FrontOwner(r) = ParentOwner(r)
    /\ inflight' = inflight \cup {SentMessage(r, FrontOwner(r))}
    /\ rk' = [rk EXCEPT ![r].sent = @ + 1, ![r].pc = "back_sending"]
    /\ UNCHANGED <<nonCompVars, eager>>

\* back.owner == my_rank and the front owner is not the parent's: receive the front image, merge.
CompBackRecv(r) ==
    /\ r < nprocs
    /\ rk[r].pc = "back_if"
    /\ BackOwner(r) = r
    /\ FrontOwner(r) # ParentOwner(r)
    /\ \E m \in Receivable(r, FrontOwner(r)) :
          /\ rk' = [rk EXCEPT ![r].image = MergeBackReceives(rk[r].image, m.image),
                              ![r].lastFront = m.image, ![r].lastBack = rk[r].image,
                              ![r].merged = m.merged \o rk[r].merged,
                              ![r].pc = "advance"]
          /\ inflight' = inflight \ {m}
    /\ UNCHANGED <<nonCompVars, eager>>

\* back.owner is another rank: the second if is skipped.
CompBackSkip(r) ==
    /\ r < nprocs
    /\ rk[r].pc = "back_if"
    /\ BackOwner(r) # r
    /\ rk' = [rk EXCEPT ![r].pc = "advance"]
    /\ UNCHANGED <<nonCompVars, inflight, eager>>

\* A blocking send returns: at once when buffered, else once its receive took it.
CompSendDone(r) ==
    /\ r < nprocs
    /\ rk[r].pc \in {"front_sending", "back_sending"}
    /\ eager \/ ~\E m \in inflight : m.src = r /\ m.n = rk[r].sent
    /\ rk' = [rk EXCEPT ![r].pc = IF rk[r].pc = "front_sending" THEN "back_if" ELSE "advance"]
    /\ UNCHANGED <<nonCompVars, inflight, eager>>

\* Lines 918-921 and the for loop's next round.
CompAdvance(r) ==
    /\ r < nprocs
    /\ rk[r].pc = "advance"
    /\ rk' = IF Continues(r, ParentOwner(r))
             THEN [rk EXCEPT ![r].my_node = ParentOf(r).id,
                             ![r].thisround = @ - 1,
                             ![r].pc = IF rk[r].thisround - 1 = 0 THEN "returned" ELSE "front_if"]
             ELSE [rk EXCEPT ![r].pc = "returned"]
    /\ UNCHANGED <<nonCompVars, inflight, eager>>

\* One step of rank r in reduce_tree_images.
CompStep(r) ==
    \/ CompLabel(r)
    \/ CompFrontRecv(r)
    \/ CompFrontSend(r)
    \/ CompFrontSkip(r)
    \/ CompBackSend(r)
    \/ CompBackRecv(r)
    \/ CompBackSkip(r)
    \/ CompSendDone(r)
    \/ CompAdvance(r)

CompNext == \E r \in AllRanks : CompStep(r)

\* Every rank is its own process and keeps running while it can take a step.
SpecComp == InitComp /\ [][CompNext]_vars /\ \A r \in AllRanks : WF_vars(CompStep(r))

\* Invocations of reduce_tree_images per rank.
MaxRuns == 2

\* traverse has passed self._barrier() and the rank enters reduce_tree_images
\* again: with image=None self.image is the buffer the last run merged into,
\* else the caller hands in a copy of what the rank rendered.
CompAgain(r) ==
    /\ r < nprocs
    /\ rk[r].pc = "returned"
    /\ rk[r].run < MaxRuns
    /\ \A q \in DOMAIN rk : rk[q].run > rk[r].run \/ rk[q].pc = "returned"
    /\ \E arg \in {"None", "image"} :
          rk' = [rk EXCEPT ![r].pc = "start",
                           ![r].run = @ + 1,
                           ![r].first = IF rk[r].run = 1 THEN rk[r].image ELSE @,
                           ![r].image_arg = arg,
                           ![r].image = IF arg = "None" THEN @ ELSE rk[r].rendered,
                           ![r].my_node = 0,
                           ![r].merged = <<r>>]
    /\ UNCHANGED <<nonCompVars, inflight, eager>>

\* The merge of two images: one process, or two on a two-rank tree.
InitCompTwice ==
    /\ InitCompWith(TRUE)
    /\ nprocs <= 2

SpecCompTwice ==
    InitCompTwice /\ [][CompNext \/ (\E r \in AllRanks : CompAgain(r))]_vars

-----------------------------------------------------------------------------
(* depth_traverse on the constructed tree *)

\* depth_traverse(): current = self.tree, previous = None.
DepthStart ==
    /\ pc = "ready"
    /\ visited' = <<>>
    /\ current_node' = 0
    /\ previous_node' = None
    /\ pc' = "depth_traverse"
    /\ UNCHANGED <<cfgVars, cornerVars, acctVars, err, tree, viewpoint, nbrVars, compVars,
                   extraVars>>

\* One iteration of depth_traverse: yield current, then step_depth.
DepthVisit ==
    /\ pc = "depth_traverse"
    /\ current_node # None
    /\ visited' = Append(visited, current_node)
    /\ StepFrom(tree)
    /\ UNCHANGED <<cfgVars, cornerVars, acctVars, pc, err, tree, viewpoint, nbrVars, compVars,
                   extraVars>>

\* The generator is exhausted.
DepthEnd ==
    /\ pc = "depth_traverse"
    /\ current_node = None
    /\ pc' = "depth_done"
    /\ UNCHANGED <<cfgVars, walkVars, cornerVars, acctVars, err, tree, viewVars, nbrVars,
                   compVars, extraVars>>

SpecDepth ==
    Init /\ [][ConstructorNext \/ DepthStart \/ DepthVisit \/ DepthEnd]_vars

-----------------------------------------------------------------------------
(* count_cost and count_volume called again on the constructed tree *)

\* Number of further calls explored.
MaxCalls == 2

\* count_cost(): the loop over depth_traverse() starts.
CostAgainStart ==
    /\ pc = "ready"
    /\ Len(calls.cost_returns) + Len(calls.volume_returns) < MaxCalls
    /\ pc' = "count_cost_again"
    /\ current_node' = 0
    /\ previous_node' = None
    /\ UNCHANGED <<cfgVars, cornerVars, acctVars, err, tree, viewVars, nbrVars, compVars,
                   extraVars>>

\* One iteration of the loop in count_cost; set_leaf_props indexes
\* hierarchy.grids with thisnode.grid - 1, which raises once thisnode.grid is
\* the grid object a previous call put there.
CostAgainVisit ==
    /\ pc = "count_cost_again"
    /\ current_node # None
    /\ IF tree[current_node].grid = None
       THEN /\ tree' = [tree EXCEPT ![current_node].cost = BranchCost(tree, tree[current_node])]
            /\ UNCHANGED <<pc, err>>
            /\ StepFrom(tree')
       ELSE IF tree[current_node].grid_is_obj
       THEN /\ pc' = "failed"
            /\ err' = "TypeError"
            /\ UNCHANGED <<walkVars, tree>>
       ELSE /\ tree' = [tree EXCEPT ![current_node] = set_leaf_props(hier, @)]
            /\ UNCHANGED <<pc, err>>
            /\ StepFrom(tree')
    /\ UNCHANGED <<cfgVars, cornerVars, acctVars, viewVars, nbrVars, compVars, extraVars>>

\* return self.tree.cost
CostAgainEnd ==
    /\ pc = "count_cost_again"
    /\ current_node = None
    /\ calls' = [calls EXCEPT !.cost_returns = Append(@, tree[0].cost)]
    /\ pc' = "ready"
    /\ UNCHANGED <<cfgVars, walkVars, cornerVars, acctVars, err, tree, viewVars, nbrVars,
                   compVars, bricks, store>>

\* count_volume(): v = 0.0, the loop over depth_traverse() starts.
VolumeAgainStart ==
    /\ pc = "ready"
    /\ Len(calls.cost_returns) + Len(calls.volume_returns) < MaxCalls
    /\ pc' = "count_volume_again"
    /\ calls' = [calls EXCEPT !.v = 0]
    /\ current_node' = 0
    /\ previous_node' = None
    /\ UNCHANGED <<cfgVars, cornerVars, acctVars, err, tree, viewVars, nbrVars, compVars,
                   bricks, store>>

\* One iteration of the loop in count_volume.
VolumeAgainVisit ==
    /\ pc = "count_volume_again"
    /\ current_node # None
    /\ calls' = [calls EXCEPT !.v =
                    IF tree[current_node].grid # None
                    THEN @ + BoxVolume(tree[current_node].l_corner, tree[current_node].r_corner)
                    ELSE @]
    /\ StepFrom(tree)
    /\ UNCHANGED <<cfgVars, cornerVars, acctVars, pc, err, tree, viewVars, nbrVars, compVars,
                   bricks, store>>

\* return v
VolumeAgainEnd ==
    /\ pc = "count_volume_again"
    /\ current_node = None
    /\ calls' = [calls EXCEPT !.volume_returns = Append(@, calls.v)]
    /\ pc' = "ready"
    /\ UNCHANGED <<cfgVars, walkVars, cornerVars, acctVars, err, tree, viewVars, nbrVars,
                   compVars, bricks, store>>

SpecCalls ==
    Init /\ [][ConstructorNext \/ CostAgainStart \/ CostAgainVisit \/ CostAgainEnd
               \/ VolumeAgainStart \/ VolumeAgainVisit \/ VolumeAgainEnd]_vars

-----------------------------------------------------------------------------
(* get_bricks *)

\* self.fields, as given to the constructor.
Fields == <<"Density", "Temperature">>

\* Number of get_bricks calls explored.
MaxGetBricks == 2

\* Variant: the saved grids are never recognised.
AlreadySavedNever(grid, saved) == FALSE

\* current_node.grid in current_saved_grids
AlreadySaved(grid, saved) == \E k \in 1..Len(saved) : saved[k] = grid

\* The get_vertex_centered_data calls of the loop over self.fields, for one grid.
FieldRequests(grid) == [f \in 1..Len(Fields) |-> <<grid, Fields[f]>>]

\* get_bricks(): returns at once when the bricks are loaded, else starts the walk.
BricksStart ==
    /\ pc = "ready"
    /\ bricks.ncalls < MaxGetBricks
    /\ IF bricks.bricks_loaded
       THEN /\ bricks' = [bricks EXCEPT !.ncalls = @ + 1]
            /\ UNCHANGED <<pc, walkVars>>
       ELSE /\ bricks' = [bricks EXCEPT !.ncalls = @ + 1, !.current_saved_grids = <<>>]
            /\ pc' = "get_bricks"
            /\ current_node' = 0
            /\ previous_node' = None
    /\ UNCHANGED <<cfgVars, cornerVars, acctVars, err, tree, viewVars, nbrVars, compVars,
                   calls, store>>

\* One iteration of the loop over depth_traverse(): a leaf gets its brick, from
\* the saved data of its grid or from new requests (a grid id that
\* set_leaf_props has not replaced by the grid object has no such method).
BricksVisit ==
    /\ pc = "get_bricks"
    /\ current_node # None
    /\ IF tree[current_node].grid = None
       THEN /\ StepFrom(tree)
            /\ UNCHANGED <<pc, err, tree, bricks>>
       ELSE IF ~tree[current_node].grid_is_obj
       THEN /\ pc' = "failed"
            /\ err' = "AttributeError"
            /\ UNCHANGED <<walkVars, tree, bricks>>
       ELSE /\ bricks' =
                 [bricks EXCEPT
                    !.requests =
                        IF AlreadySaved(tree[current_node].grid, bricks.current_saved_grids)
                        THEN @ ELSE @ \o FieldRequests(tree[current_node].grid),
                    !.current_saved_grids =
                        IF AlreadySaved(tree[current_node].grid, bricks.current_saved_grids)
                        THEN @ ELSE Append(@, tree[current_node].grid),
                    !.made = Append(@, current_node)]
            /\ tree' = [tree EXCEPT ![current_node].brick = tree[current_node].grid]
            /\ StepFrom(tree')
            /\ UNCHANGED <<pc, err>>
    /\ UNCHANGED <<cfgVars, cornerVars, acctVars, viewVars, nbrVars, compVars, calls, store>>

\* del current_saved_grids, current_vcds; self.bricks_loaded = True
BricksEnd ==
    /\ pc = "get_bricks"
    /\ current_node = None
    /\ bricks' = [bricks EXCEPT !.bricks_loaded = TRUE, !.current_saved_grids = <<>>]
    /\ pc' = "ready"
    /\ UNCHANGED <<cfgVars, walkVars, cornerVars, acctVars, err, tree, viewVars, nbrVars,
                   compVars, calls, store>>

SpecBricks ==
    Init /\ [][ConstructorNext \/ BricksStart \/ BricksVisit \/ BricksEnd]_vars

-----------------------------------------------------------------------------
(* store_tree and load_tree.  self.tree is the MasterNode graph after        *)
(* construction ("nodes") and a dict keyed by node id after load_tree        *)
(* ("table").  A file is the set of its top-level dataset names, the rows    *)
(* of the node arrays, the ids of /kd_ids and the brick datasets, each named *)
(* by the digits of its group and its field.                                 *)

RECURSIVE DecimalDigits(_)
DecimalDigits(i) == IF i < 10 THEN <<i>> ELSE Append(DecimalDigits(i \div 10), i % 10)

ZeroPad(d, w) == IF Len(d) >= w THEN d ELSE [k \in 1..(w - Len(d)) |-> 0] \o d

\* "/bricks/brick_%08i" % i
BrickGroupStored(i) == ZeroPad(DecimalDigits(i), 8)

\* "/bricks/brick_%s" % i
BrickGroupLoaded(i) == DecimalDigits(i)

\* The datasets store_tree creates, and those load_tree opens.
StoredNames == {"left_edges", "right_edges", "grids", "split_axs", "split_pos", "kd_owners"}

LoadedNames == {"kd_ids", "left_edges", "right_edges", "grids", "split_axs", "split_pos",
                "kd_owners"}

RECURSIVE IdsInOrder(_)
IdsInOrder(S) ==
    IF S = {} THEN <<>>
    ELSE LET m == CHOOSE x \in S : \A y \in S : x <= y
         IN  <<m>> \o IdsInOrder(S \ {m})

\* What the loop of store_tree does with one item of a table: a grid read from
\* a file is a number and has no id; a brick of None or a list has no my_data.
NodeStoreFails(node) == node.grid # None \/ "brick" \in node.keys

StoreError(form, table) ==
    IF form = "nodes" THEN "TypeError"
    ELSE IF \E id \in DOMAIN table : NodeStoreFails(table[id]) THEN "AttributeError"
    ELSE ""

StoredRow(node) ==
    [l_corner |-> node.l_corner, r_corner |-> node.r_corner,
     grid |-> -1, split_ax |-> node.split_ax, split_pos |-> node.split_pos,
     owner |-> node.owner]

\* The file store_tree leaves: created or truncated on opening, the datasets
\* written only when the loop has run through.
StoredFile(form, table) ==
    IF StoreError(form, table) # ""
    THEN [NoFile EXCEPT !.exists = TRUE]
    ELSE [exists |-> TRUE, names |-> StoredNames, kd_ids |-> <<>>,
          rows |-> [i \in 1..Cardinality(DOMAIN table) |->
                        StoredRow(table[IdsInOrder(DOMAIN table)[i]])],
          bricks |-> {}]

\* The nodes of self.tree as store_tree finds them: id, bounds, grid, split.
NodesBefore(form, t, table) ==
    IF form = "nodes"
    THEN [id \in DOMAIN t |->
             [l_corner |-> t[id].l_corner, r_corner |-> t[id].r_corner,
              grid |-> t[id].grid, split_ax |-> t[id].split_ax,
              split_pos |-> t[id].split_pos]]
    ELSE [id \in DOMAIN table |->
             [l_corner |-> table[id].l_corner, r_corner |-> table[id].r_corner,
              grid |-> table[id].grid, split_ax |-> table[id].split_ax,
              split_pos |-> table[id].split_pos]]

StoreTree ==
    /\ pc = "ready"
    /\ store' = [store EXCEPT
                   !.file = StoredFile(store.tree_form, store.table),
                   !.store_err = StoreError(store.tree_form, store.table),
                   !.before = NodesBefore(store.tree_form, tree, store.table),
                   !.load_err = "",
                   !.last = "store_tree"]
    /\ UNCHANGED <<cfgVars, walkVars, cornerVars, acctVars, pc, err, tree, viewVars,
                   nbrVars, compVars, calls, bricks>>

\* Files with the layout load_tree reads, written by other means: no node,
\* one leaf, and a split with its two leaves.
ExternalFiles ==
    LET FileRow(l, r, grid, ax, pos) ==
            [l_corner |-> l, r_corner |-> r, grid |-> grid, split_ax |-> ax,
             split_pos |-> pos, owner |-> 0]
        FileBricks(rows) ==
            {<<BrickGroupLoaded(i - 1), Fields[k]>> :
                i \in {j \in 1..Len(rows) : rows[j].grid # -1}, k \in 1..Len(Fields)}
        FileOf(ids, rows) ==
            [exists |-> TRUE, names |-> LoadedNames, kd_ids |-> ids, rows |-> rows,
             bricks |-> FileBricks(rows)]
    IN  {FileOf(<<>>, <<>>),
         FileOf(<<0>>, <<FileRow(<<0, 0, 0>>, <<16, 16, 16>>, 0, -1, 0)>>),
         FileOf(<<0, 1, 2>>, <<FileRow(<<0, 0, 0>>, <<16, 16, 16>>, -1, 0, 8),
                               FileRow(<<0, 0, 0>>, <<8, 16, 16>>, 0, -1, 0),
                               FileRow(<<8, 0, 0>>, <<16, 16, 16>>, 0, -1, 0)>>)}

LoadError(f) ==
    IF ~f.exists THEN "IOError"
    ELSE IF ~(LoadedNames \subseteq f.names) THEN "KeyError"
    ELSE IF \E i \in 1..Len(f.kd_ids) :
               /\ f.rows[i].grid # -1
               /\ \E k \in 1..Len(Fields) : <<BrickGroupLoaded(i - 1), Fields[k]>> \notin f.bricks
    THEN "KeyError"
    ELSE ""

\* mytree of load_tree.
LoadedTable(f) ==
    [id \in {f.kd_ids[i] : i \in 1..Len(f.kd_ids)} |->
        LET i == CHOOSE j \in 1..Len(f.kd_ids) :
                    /\ f.kd_ids[j] = id
                    /\ \A k \in 1..Len(f.kd_ids) : f.kd_ids[k] = id => k <= j
            row == f.rows[i]
        IN  [l_corner |-> row.l_corner, r_corner |-> row.r_corner,
             split_ax |-> IF row.grid = -1 THEN row.split_ax ELSE None,
             split_pos |-> IF row.grid = -1 THEN row.split_pos ELSE None,
             owner |-> row.owner,
             grid |-> IF row.grid = -1 THEN None ELSE row.grid,
             brick |-> IF row.grid = -1 THEN None ELSE i - 1,
             keys |-> {"l_corner", "r_corner", "split_ax", "split_pos", "owner",
                       "grid", "brick"}]]

\* load_tree(fn) on the file store_tree wrote (own) or on another file.
LoadTree ==
    /\ pc = "ready"
    /\ \E own \in BOOLEAN :
       \E f \in IF own THEN {store.file} ELSE ExternalFiles :
          store' = [store EXCEPT
                      !.load_err = LoadError(f),
                      !.tree_form = IF LoadError(f) = "" THEN "table" ELSE @,
                      !.table = IF LoadError(f) = "" THEN LoadedTable(f) ELSE @,
                      !.last = IF own /\ store.last = "store_tree"
                               THEN "round_trip" ELSE "load_tree"]
    /\ UNCHANGED <<cfgVars, walkVars, cornerVars, acctVars, pc, err, tree, viewVars,
                   nbrVars, compVars, calls, bricks>>

SpecStore ==
    Init /\ [][ConstructorNext \/ StoreTree \/ LoadTree]_vars

-----------------------------------------------------------------------------
(* store_kd_bricks and load_kd_bricks, run by every rank on one shared file. *)
(* store.ranks[r] is rank r's position, whether its h5py.File is open, its   *)
(* bricks_loaded and the nodes it attached a brick to; store.tokens are the  *)
(* hand-off messages in flight, store.opened the ranks in the order in which *)
(* they opened the file.                                                     *)

\* Variant: the body of load_kd_bricks has no handler either.
CaughtNever(mode) == FALSE

\* try: ... except: pass around the body of load_kd_bricks; store_kd_bricks
\* has a handler around create_dataset only.
Caught(mode) == mode = "load"

\* The exception the loop over self.tree.iteritems() ends with, "" if none: a
\* MasterNode has no iteritems; load_kd_bricks reads the datasets of a node
\* with a grid and then takes node['grid'].id of a grid read from a file.
KdLoopError(mode, form, table, kd_file) ==
    IF form = "nodes" THEN "AttributeError"
    ELSE IF mode = "store" THEN ""
    ELSE IF \A id \in DOMAIN table : table[id].grid = None THEN ""
    ELSE IF kd_file # "bricks" THEN "KeyError"
    ELSE "AttributeError"

\* The ranks enter store_kd_bricks or load_kd_bricks, each with the tree as
\* built or with a table from load_tree; the file is missing, without brick
\* datasets or with them, and opening it may fail on one rank.
KdBegin ==
    /\ store.mode = ""
    /\ \E mode \in {"store", "load"}, fails \in {{}, {0}, {nprocs - 1}},
          kd_file \in {"missing", "empty", "bricks"}, eag \in BOOLEAN,
          src \in {NoFile} \cup ExternalFiles :
          /\ (mode = "load" /\ kd_file = "missing") => fails = {}
          /\ store' = [store EXCEPT
                         !.mode = mode, !.kd_file = kd_file, !.open_fails = fails,
                         !.send_eager = eag,
                         !.tree_form = IF src = NoFile THEN "nodes" ELSE "table",
                         !.table = IF src = NoFile THEN <<>> ELSE LoadedTable(src),
                         !.ranks = [r \in 0..(nprocs - 1) |->
                                      [pc |-> "recv", open |-> FALSE, bricks_loaded |-> FALSE,
                                       attached |-> {}, err |-> ""]]]
    /\ UNCHANGED <<cfgVars, walkVars, cornerVars, acctVars, pc, err, tree, viewVars,
                   nbrVars, compVars, calls, bricks>>

\* if my_rank != 0: PT._recv_array(my_rank-1, tag=my_rank-1)
KdRecv(r) ==
    /\ r \in DOMAIN store.ranks
    /\ store.ranks[r].pc = "recv"
    /\ r # 0 => [src |-> r - 1, dst |-> r, tag |-> r - 1] \in store.tokens
    /\ store' = [store EXCEPT !.ranks[r].pc = "open",
                              !.tokens = @ \ {[src |-> r - 1, dst |-> r, tag |-> r - 1]}]
    /\ UNCHANGED <<cfgVars, walkVars, cornerVars, acctVars, pc, err, tree, viewVars,
                   nbrVars, compVars, calls, bricks>>

\* f = h5py.File(fn, "a") in store_kd_bricks, h5py.File(fn, "r") inside the try
\* of load_kd_bricks, which cannot open a missing file.
KdOpen(r) ==
    /\ r \in DOMAIN store.ranks
    /\ store.ranks[r].pc = "open"
    /\ store' =
          IF r \in store.open_fails \/ (store.mode = "load" /\ store.kd_file = "missing")
          THEN [store EXCEPT !.ranks[r].err = "IOError",
                             !.ranks[r].pc = IF Caught(store.mode) THEN "pass" ELSE "raised"]
          ELSE [store EXCEPT !.ranks[r].open = TRUE,
                             !.ranks[r].pc = "body",
                             !.opened = Append(@, r),
                             !.kd_file = IF @ = "missing" THEN "empty" ELSE @]
    /\ UNCHANGED <<cfgVars, walkVars, cornerVars, acctVars, pc, err, tree, viewVars,
                   nbrVars, compVars, calls, bricks>>

\* The loop over the tree and what follows it up to f.close(): an exception
\* leaves the body before f.close() (and before bricks_loaded = True); f stays
\* open while the function still holds it.
KdBody(r) ==
    /\ r \in DOMAIN store.ranks
    /\ store.ranks[r].pc = "body"
    /\ LET e == KdLoopError(store.mode, store.tree_form, store.table, store.kd_file)
       IN  store' =
             IF e # ""
             THEN [store EXCEPT !.ranks[r].err = e,
                                !.ranks[r].pc = IF Caught(store.mode) THEN "pass" ELSE "raised",
                                !.read_failed = @ \/ e = "KeyError"]
             ELSE [store EXCEPT !.ranks[r].open = FALSE,
                                !.ranks[r].bricks_loaded = (store.mode = "load"),
                                !.ranks[r].pc = "pass"]
    /\ UNCHANGED <<cfgVars, walkVars, cornerVars, acctVars, pc, err, tree, viewVars,
                   nbrVars, compVars, calls, bricks>>

\* if my_rank != (nprocs-1): PT._send_array([0], my_rank+1, tag=my_rank); the
\* last rank returns, and its file object goes with the call.
KdPass(r) ==
    /\ r \in DOMAIN store.ranks
    /\ store.ranks[r].pc = "pass"
    /\ store' =
          IF r # nprocs - 1
          THEN [store EXCEPT !.tokens = @ \cup {[src |-> r, dst |-> r + 1, tag |-> r]},
                             !.ranks[r].pc = "sending"]
          ELSE [store EXCEPT !.ranks[r].pc = "returned", !.ranks[r].open = FALSE]
    /\ UNCHANGED <<cfgVars, walkVars, cornerVars, acctVars, pc, err, tree, viewVars,
                   nbrVars, compVars, calls, bricks>>

\* The blocking send returns (at once when buffered, else once the receive
\* took the message) and the call returns; its file object goes with it.
KdSendDone(r) ==
    /\ r \in DOMAIN store.ranks
    /\ store.ranks[r].pc = "sending"
    /\ store.send_eager \/ [src |-> r, dst |-> r + 1, tag |-> r] \notin store.tokens
    /\ store' = [store EXCEPT !.ranks[r].pc = "returned", !.ranks[r].open = FALSE]
    /\ UNCHANGED <<cfgVars, walkVars, cornerVars, acctVars, pc, err, tree, viewVars,
                   nbrVars, compVars, calls, bricks>>

\* One step of rank r in store_kd_bricks or load_kd_bricks.
KdStep(r) ==
    \/ KdRecv(r)
    \/ KdOpen(r)
    \/ KdBody(r)
    \/ KdPass(r)
    \/ KdSendDone(r)

\* The ranks of a run; the viewpoint and the image transport play no part here.
InitKd ==
    /\ InitComp
    /\ viewpoint = <<0, 0, 0>>
    /\ ~eager

\* Every rank is its own process and keeps running while it can take a step.
SpecKdBricks ==
    /\ InitKd
    /\ [][KdBegin \/ \E r \in AllRanks : KdStep(r)]_vars
    /\ WF_vars(KdBegin)
    /\ \A r \in AllRanks : WF_vars(KdStep(r))

\* traverse on a tree on which get_bricks has run or not.
SpecTraverse ==
    InitView /\ [][ConstructorNext \/ BricksStart \/ BricksVisit \/ BricksEnd
                   \/ ViewStart \/ ViewVisit \/ ViewEnd]_vars

Next == ConstructorNext

Spec == Init /\ [][Next]_vars

\* __init__ up to the end of __build as a running program: a step of the loop
\* that can be taken is taken.
SpecBuild ==
    /\ Init
    /\ [][Construct \/ BuildSkip \/ BuildRemote \/ BuildDescend \/ BuildLeaf
             \/ BuildEmptyLeaf \/ BuildDivide \/ BuildEnd]_vars
    /\ WF_vars(Construct \/ BuildSkip \/ BuildRemote \/ BuildDescend \/ BuildLeaf
                  \/ BuildEmptyLeaf \/ BuildDivide \/ BuildEnd)

\* The constructor on hierarchies with more than 20 level-0 grids.
SpecBig == InitWith(BigHierarchies) /\ [][Next]_vars

\* The constructor on proper and improper hierarchies.
SpecImproper == InitWith(Hierarchies \cup ImproperHierarchies) /\ [][Next]_vars

-----------------------------------------------------------------------------
(* Properties *)

Leaves(t) == {i \in DOMAIN t : t[i].grid # None}

SplitNodes(t) == {i \in DOMAIN t : t[i].grid = None /\ t[i].split_ax # None}

\* Hand-off nodes left to another rank: owner recorded, never built.
RemoteNodes(t) == {i \in DOMAIN t : "owner" \in t[i].attrs}

\* Volume of a box, for stating the properties.
Vol(l_edge, r_edge) ==
    (r_edge[1] - l_edge[1]) * (r_edge[2] - l_edge[2]) * (r_edge[3] - l_edge[3])

RECURSIVE SumVolume(_, _)
SumVolume(t, S) ==
    IF S = {} THEN 0
    ELSE LET i == CHOOSE x \in S : TRUE
         IN  Vol(t[i].l_corner, t[i].r_corner) + SumVolume(t, S \ {i})

\* Position in visited of the first visit of node i (0 if never visited).
FirstVisit(i) ==
    IF \E k \in 1..Len(visited) : visited[k] = i
    THEN CHOOSE k \in 1..Len(visited) :
           visited[k] = i /\ \A j \in 1..(k - 1) : visited[j] # i
    ELSE 0

\* The node yielded right after the first visit of split node i.
EnteredFirst(i) == visited[FirstVisit(i) + 1]

\* C1: viewpoint_traverse is far-then-near: at every split node the child that
\* does not contain the viewpoint is entered first (viewpoint below the split
\* plane: the right child; above it: the left child).
C1_FarChildFirst ==
    pc = "traversed" =>
        \A i \in SplitNodes(tree) :
            (FirstVisit(i) > 0 /\ At(viewpoint, tree[i].split_ax) # tree[i].split_pos) =>
                EnteredFirst(i) = IF At(viewpoint, tree[i].split_ax) < tree[i].split_pos
                                  THEN tree[i].right_child ELSE tree[i].left_child

\* C4: the child reduce_tree_images labels 'back' is the child step_viewpoint
\* enters first, for every split node and every viewpoint.
C4_BackIsEnteredFirst ==
    pc = "traversed" =>
        \A i \in SplitNodes(tree) :
            FirstVisit(i) > 0 => EnteredFirst(i) = BackChild(tree[i], viewpoint)

\* C5 as stated: count_volume equals the volume of the root node's box.
C5_VolumeIsRootVolume ==
    pc = "ready" => volume = Vol(tree[0].l_corner, tree[0].r_corner)

\* C5 amended: count_volume equals the root box's volume minus the volumes of
\* the hand-off nodes left to other ranks (none when nprocs = 1).
C5_VolumeIsLocalVolume ==
    pc = "ready" =>
        /\ volume = Vol(tree[0].l_corner, tree[0].r_corner)
                    - SumVolume(tree, RemoteNodes(tree))
        /\ nprocs = 1 => volume = Vol(tree[0].l_corner, tree[0].r_corner)

C5_Witness ==
    /\ pc = "ready"
    /\ nprocs = 2
    /\ RemoteNodes(tree) # {}
    /\ Cardinality(Leaves(tree)) >= 2
    /\ volume > 0
    /\ volume < Vol(tree[0].l_corner, tree[0].r_corner)

\* C6: any two distinct leaves of the tree have boxes whose intersection has
\* zero volume (on some axis the boxes do not strictly overlap).
C6_LeavesDoNotOverlap ==
    \A a, b \in Leaves(tree) :
        a # b => \E d \in Axes : \/ At(tree[a].r_corner, d) <= At(tree[b].l_corner, d)
                                 \/ At(tree[b].r_corner, d) <= At(tree[a].l_corner, d)

C6_Witness ==
    /\ pc = "ready"
    /\ Cardinality(Leaves(tree)) >= 5

\* Largest node id the hand-off arithmetic is checked on.
MaxCheckedId == 20

\* C7: for P in {1,2,4} the hand-off nodes are exactly ids P-1..2P-2, each is
\* claimed by exactly one rank, id+1-P, and the claiming ranks are 0..P-1; the
\* build claims only its own hand-off node and leaves the others to their ranks.
C7_HandOffOwnership ==
    nprocs \in {1, 2, 4} =>
        /\ {id \in 0..MaxCheckedId : IsHandOff(id, nprocs)} = (nprocs - 1)..(2 * nprocs - 2)
        /\ \A id \in (nprocs - 1)..(2 * nprocs - 2) :
              {r \in 0..(nprocs - 1) : IOwn(id, nprocs, r)} = {id + 1 - nprocs}
        /\ {id + 1 - nprocs : id \in (nprocs - 1)..(2 * nprocs - 2)} = 0..(nprocs - 1)
        /\ claimed \subseteq {nprocs - 1 + my_rank}
        /\ \A i \in RemoteNodes(tree) :
              /\ i \in (nprocs - 1)..(2 * nprocs - 2)
              /\ tree[i].owner = i + 1 - nprocs
              /\ tree[i].owner # my_rank

C7_Witness ==
    /\ pc = "ready"
    /\ nprocs = 4
    /\ claimed = {3 + my_rank}
    /\ RemoteNodes(tree) = {3, 4, 5, 6} \ claimed

IsPowerOfTwo(n) == Pow2(Log2Floor(n)) = n

\* C8: a process count that is not a power of two is rejected before any node
\* is built.
C8_NonPowerOfTwoRejected ==
    (pc # "init" /\ ~IsPowerOfTwo(nprocs)) => (pc = "failed" /\ tree = <<>>)

NumRootGrids(h) == Cardinality({i \in 1..Len(h) : h[i].Level = 0})

AxisShifts(a) ==
    {0} \cup (IF At(le, a) < At(pf_domain_left_edge, a) THEN {1} ELSE {})
        \cup (IF At(re, a) > At(pf_domain_right_edge, a) THEN {0 - 1} ELSE {})

\* The query box moved by k[a] domain widths on each axis a.
ShiftedBox(k) ==
    LET w == [a \in Axes |-> At(pf_domain_right_edge, a) - At(pf_domain_left_edge, a)]
    IN  << [a \in 1..3 |-> le[a] + k[a - 1] * w[a - 1]],
           [a \in 1..3 |-> re[a] + k[a - 1] * w[a - 1]] >>

\* brick overlaps the query box wrapped across the face of axis d (sign = 1:
\* lower face, -1: upper face), however the other axes are wrapped.
ShiftedOverlap(d, sign, brick) ==
    \A k \in [Axes -> {0 - 1, 0, 1}] :
        (k[d] = sign /\ \A a \in Axes \ {d} : k[a] \in AxisShifts(a)) =>
            StrictOverlap(ShiftedBox(k)[1], ShiftedBox(k)[2], brick)

InNeighbors(i) == \E k \in 1..Len(neighbors) : neighbors[k] = i

\* C10: with periodic=True, when the default query box of a leaf passes a
\* domain face (lower or upper, any axis), every leaf touching the opposite
\* face that the wrapped box overlaps is returned.
C10_PeriodicFindsOppositeFace ==
    (pc = "neighbors_done" /\ periodic) =>
        \A d \in Axes : \A x \in Leaves(tree) :
            /\ (/\ At(le, d) < At(pf_domain_left_edge, d)
                /\ At(tree[x].r_corner, d) = At(pf_domain_right_edge, d)
                /\ ShiftedOverlap(d, 1, tree[x])) => InNeighbors(x)
            /\ (/\ At(re, d) > At(pf_domain_right_edge, d)
                /\ At(tree[x].l_corner, d) = At(pf_domain_left_edge, d)
                /\ ShiftedOverlap(d, 0 - 1, tree[x])) => InNeighbors(x)

\* C2: after a merge of front image A and back image B the accumulated image
\* is A[i] + max(1 - sum(A), 0) * B[i] in every channel i, sum(A) taken over
\* A as it was before the merge, whichever rank merged.
C2_MergeRule ==
    \A r \in DOMAIN rk :
        rk[r].lastFront # <<>> =>
            rk[r].image = [i \in 1..3 |->
                rk[r].lastFront[i]
                + (Max2(Opaque - (rk[r].lastFront[1] + rk[r].lastFront[2]
                                  + rk[r].lastFront[3]), 0)
                   * rk[r].lastBack[i]) \div Opaque]

AllReturned == \A r \in DOMAIN rk : rk[r].pc = "returned"

\* The sequence s holds every rank 0..np-1 exactly once.
EachRankOnce(s, np) ==
    /\ Len(s) = np
    /\ \A q \in 0..(np - 1) : Cardinality({k \in 1..Len(s) : s[k] = q}) = 1

\* The reduction is over: all ranks returned, no image is left unreceived, and
\* rank 0 stands at the root with every rank's image merged in exactly once.
ReductionDone ==
    /\ AllReturned
    /\ inflight = {}
    /\ rk[0].my_node = 0
    /\ EachRankOnce(rk[0].merged, nprocs)
    /\ \A r \in DOMAIN rk : r # 0 => rk[r].my_node # 0

\* C3: for P in {1,2,4}, every viewpoint and every interleaving, with blocking
\* sends and receives, every rank eventually returns, every image sent is
\* received by its destination under the sender's rank as source and tag, no
\* image is merged twice, and rank 0 ends at the root holding all P images.
C3_ReductionTerminates ==
    /\ [](\A m \in inflight : m.tag = m.src /\ m.dst \in DOMAIN rk /\ m.dst # m.src)
    /\ [](\A r \in DOMAIN rk :
            \A q \in AllRanks : Cardinality({k \in 1..Len(rk[r].merged) : rk[r].merged[k] = q}) <= 1)
    /\ <>[]ReductionDone

C3_Witness ==
    /\ nprocs = 4
    /\ ~eager
    /\ ReductionDone
    /\ rk[0].sent = 0

\* Construction has returned normally (count_cost and count_volume included or not).
Constructed == pc \in {"count_cost", "count_volume", "ready"}

\* A leaf: a bound grid, no split axis or position, no children.
IsLeafNode(n) ==
    /\ n.grid # None
    /\ n.split_ax = None /\ n.split_pos = None
    /\ n.left_child = None /\ n.right_child = None

\* A split node: split axis and position, both children, no grid.
IsSplitNode(n) ==
    /\ n.grid = None
    /\ n.split_ax # None /\ n.split_pos # None
    /\ n.left_child # None /\ n.right_child # None

\* A hand-off node left to another rank: no grid, no split, no children, and
\* the other rank recorded as owner.
IsRemotePlaceholder(n) ==
    /\ n.grid = None
    /\ n.split_ax = None /\ n.split_pos = None
    /\ n.left_child = None /\ n.right_child = None
    /\ "owner" \in n.attrs
    /\ n.owner = n.id + 1 - nprocs
    /\ n.owner # my_rank
    /\ IsHandOff(n.id, nprocs)

\* C12 as stated: after construction every node is exactly one of leaf or
\* split, and its children exist together or not at all.
C12_LeafOrSplit ==
    Constructed =>
        \A i \in DOMAIN tree :
            /\ IsLeafNode(tree[i]) # IsSplitNode(tree[i])
            /\ (tree[i].left_child = None) <=> (tree[i].right_child = None)

\* C12 amended: after construction every node is exactly one of leaf, split, or
\* placeholder of another rank's hand-off node; children exist together or not
\* at all; for nprocs = 1 every node is a leaf or a split node.
C12_LeafSplitOrRemote ==
    Constructed =>
        /\ \A i \in DOMAIN tree :
              /\ Cardinality({k \in {"leaf", "split", "remote"} :
                                \/ k = "leaf" /\ IsLeafNode(tree[i])
                                \/ k = "split" /\ IsSplitNode(tree[i])
                                \/ k = "remote" /\ IsRemotePlaceholder(tree[i])}) = 1
              /\ (tree[i].left_child = None) <=> (tree[i].right_child = None)
              /\ tree[i].left_child # None =>
                    {tree[i].left_child, tree[i].right_child} \subseteq DOMAIN tree
        /\ nprocs = 1 => \A i \in DOMAIN tree : IsLeafNode(tree[i]) # IsSplitNode(tree[i])

C12_Witness ==
    /\ pc = "ready"
    /\ nprocs = 4
    /\ \E i, j, k \in DOMAIN tree :
          IsLeafNode(tree[i]) /\ IsSplitNode(tree[j]) /\ IsRemotePlaceholder(tree[k])

\* C13: at every split node the left child's box is the parent's with the
\* upper bound on split_ax replaced by split_pos, the right child's box is the
\* parent's with the lower bound on split_ax replaced by split_pos, and
\* split_pos lies strictly inside the parent's extent on split_ax.
C13_SplitGeometry ==
    \A i \in DOMAIN tree :
        tree[i].split_ax # None =>
            LET n == tree[i]
                a == n.split_ax + 1
                l == tree[n.left_child]
                r == tree[n.right_child]
            IN  /\ n.l_corner[a] < n.split_pos /\ n.split_pos < n.r_corner[a]
                /\ l.l_corner = n.l_corner
                /\ l.r_corner = [k \in 1..3 |-> IF k = a THEN n.split_pos ELSE n.r_corner[k]]
                /\ r.r_corner = n.r_corner
                /\ r.l_corner = [k \in 1..3 |-> IF k = a THEN n.split_pos ELSE n.l_corner[k]]
                /\ \A k \in 1..3 : l.l_corner[k] < l.r_corner[k] /\ r.l_corner[k] < r.r_corner[k]

C13_Witness ==
    /\ pc = "ready"
    /\ \E i, j \in DOMAIN tree :
          /\ tree[i].split_ax = 0
          /\ tree[j].split_ax = 1
          /\ tree[j].parent = i

\* C14: for every id >= 0 the left child id is 2*id+1, the right child id is
\* 2*id+2 and both have id as parent id; in every tree the root has id 0 and
\* each child carries the child id of its parent's id.
C14_IdArithmetic ==
    /\ \A id \in 0..MaxCheckedId :
          /\ _lchild_id(id) = 2 * id + 1
          /\ _rchild_id(id) = 2 * id + 2
          /\ _parent_id(_lchild_id(id)) = id
          /\ _parent_id(_rchild_id(id)) = id
    /\ \A i \in DOMAIN tree :
          /\ tree[i].id = i
          /\ tree[i].parent = None <=> i = 0
          /\ tree[i].left_child # None =>
                /\ tree[tree[i].left_child].id = 2 * tree[i].id + 1
                /\ tree[tree[i].left_child].parent = i
          /\ tree[i].right_child # None =>
                /\ tree[tree[i].right_child].id = 2 * tree[i].id + 2
                /\ tree[tree[i].right_child].parent = i

C14_Witness ==
    /\ pc = "ready"
    /\ \E i \in DOMAIN tree : i >= 11 /\ tree[i].grid # None

\* Number of times node i occurs in visited.
TimesVisited(i) == Cardinality({k \in 1..Len(visited) : visited[k] = i})

\* C15 as stated: depth_traverse yields every node of the tree exactly once,
\* then ends.
C15_EveryNodeOnce ==
    pc = "depth_done" => \A i \in DOMAIN tree : TimesVisited(i) = 1

\* C15 amended: depth_traverse yields every node at least once: a leaf or a
\* childless node exactly once, a split node exactly three times (on entry,
\* after its left subtree, after its right subtree); the walk ends after
\* exactly that many yields.
C15_LeavesOnceSplitsThrice ==
    /\ pc = "depth_done" =>
          /\ \A i \in DOMAIN tree :
                TimesVisited(i) = IF tree[i].left_child # None THEN 3 ELSE 1
          /\ \A k \in 1..Len(visited) : visited[k] \in DOMAIN tree
    /\ pc = "depth_traverse" =>
          /\ \A i \in DOMAIN tree :
                TimesVisited(i) <= IF tree[i].left_child # None THEN 3 ELSE 1
          /\ current_node = None =>
                \A i \in DOMAIN tree :
                    TimesVisited(i) = IF tree[i].left_child # None THEN 3 ELSE 1

C15_Witness ==
    /\ pc = "depth_done"
    /\ Cardinality(SplitNodes(tree)) >= 3
    /\ Cardinality(Leaves(tree)) >= 4
    /\ Len(visited) = 3 * Cardinality(SplitNodes(tree)) + Cardinality(Leaves(tree))

\* count_cost has run to its end.
CostCounted == pc \in {"count_volume", "ready"}

\* C17: after count_cost every split node's cost is the sum of its two
\* children's costs, a childless non-leaf node (another rank's hand-off node)
\* has cost 0, and the value returned is the root's cost.
C17_CostAccounting ==
    CostCounted =>
        /\ \A i \in DOMAIN tree :
              /\ tree[i].left_child # None =>
                    tree[i].cost = tree[tree[i].left_child].cost
                                   + tree[tree[i].right_child].cost
              /\ (tree[i].grid = None /\ tree[i].left_child = None) => tree[i].cost = 0
        /\ total_cost = tree[0].cost

C17_Witness ==
    /\ pc = "ready"
    /\ nprocs = 2
    /\ RemoteNodes(tree) # {}
    /\ Cardinality(SplitNodes(tree)) >= 2
    /\ total_cost > 0
    /\ \E i \in SplitNodes(tree) :
          tree[tree[i].left_child].cost > 0 /\ tree[tree[i].right_child].cost > 0

\* C18: count_cost and count_volume can be called again any number of times
\* after construction; every call completes and returns what the first call
\* (the constructor's) returned.
C18_CallsRepeatable ==
    /\ err # "TypeError"
    /\ \A k \in 1..Len(calls.cost_returns) : calls.cost_returns[k] = total_cost
    /\ \A k \in 1..Len(calls.volume_returns) : calls.volume_returns[k] = volume

\* Number of requests made for the pair <<grid, field>>.
TimesRequested(g, f) ==
    Cardinality({k \in 1..Len(bricks.requests) : bricks.requests[k] = <<g, f>>})

\* Number of bricks made for node i.
BricksMadeFor(i) == Cardinality({k \in 1..Len(bricks.made) : bricks.made[k] = i})

\* C19: over any sequence of get_bricks calls each (grid, field) is requested
\* at most once, even when several leaves share the grid; once the bricks are
\* loaded every leaf has exactly one brick and every bound grid was requested
\* once per field; a repeated call requests nothing and changes no brick.
C19_BricksMemoized ==
    /\ [](/\ \A g \in 1..Len(hier) : \A f \in 1..Len(Fields) : TimesRequested(g, Fields[f]) <= 1
          /\ \A i \in DOMAIN tree : BricksMadeFor(i) <= 1
          /\ bricks.bricks_loaded =>
                \A i \in DOMAIN tree :
                    /\ BricksMadeFor(i) = IF tree[i].grid # None THEN 1 ELSE 0
                    /\ tree[i].grid # None =>
                          /\ tree[i].brick = tree[i].grid
                          /\ \A f \in 1..Len(Fields) :
                                TimesRequested(tree[i].grid, Fields[f]) = 1)
    /\ [][bricks.bricks_loaded =>
            /\ bricks'.requests = bricks.requests
            /\ bricks'.made = bricks.made
            /\ bricks'.bricks_loaded
            /\ \A i \in DOMAIN tree : tree'[i].brick = tree[i].brick]_vars

C19_Witness ==
    /\ pc = "ready"
    /\ bricks.bricks_loaded
    /\ bricks.ncalls = 2
    /\ \E i, j \in Leaves(tree) : i # j /\ tree[i].grid = tree[j].grid
    /\ Len(bricks.requests) < Len(Fields) * Cardinality(Leaves(tree))

\* Ids above the hand-off depth, and at it.
AboveHandOff(t) == {i \in DOMAIN t : i + 1 < Pow2(Log2Floor(nprocs))}

HandOffNodes(t) == {i \in DOMAIN t : IsHandOff(i, nprocs)}

\* i is node a or lies below it.
RECURSIVE IsAtOrBelow(_, _)
IsAtOrBelow(i, a) ==
    IF i = a THEN TRUE ELSE IF i <= a THEN FALSE ELSE IsAtOrBelow((i - 1) \div 2, a)

\* The ranks whose build of the same grids completes.
BuildingRanks == {q \in 0..(nprocs - 1) : TreeBuiltBy(q).err = ""}

\* C20: for P > 1 the trees two ranks build from the same grids agree on every
\* node above the hand-off depth (ids, bounds, split axis and position) and on
\* the bounds of the hand-off nodes; each rank's further nodes all lie below
\* its own hand-off node.
C20_SameSkeleton ==
    (pc = "ready" /\ nprocs > 1) =>
        \A q \in BuildingRanks :
            LET tq == TreeBuiltBy(q).tree IN
            /\ AboveHandOff(tq) = AboveHandOff(tree)
            /\ \A i \in AboveHandOff(tree) :
                  /\ tq[i].id = tree[i].id
                  /\ tq[i].l_corner = tree[i].l_corner
                  /\ tq[i].r_corner = tree[i].r_corner
                  /\ tq[i].split_ax = tree[i].split_ax
                  /\ tq[i].split_pos = tree[i].split_pos
            /\ HandOffNodes(tq) = HandOffNodes(tree)
            /\ \A i \in HandOffNodes(tree) :
                  /\ tq[i].l_corner = tree[i].l_corner
                  /\ tq[i].r_corner = tree[i].r_corner
            /\ \A i \in DOMAIN tq \ (AboveHandOff(tq) \cup HandOffNodes(tq)) :
                  IsAtOrBelow(i, nprocs - 1 + q)
            /\ \A i \in DOMAIN tree \ (AboveHandOff(tree) \cup HandOffNodes(tree)) :
                  IsAtOrBelow(i, nprocs - 1 + my_rank)

C20_Witness ==
    /\ pc = "ready"
    /\ nprocs = 4
    /\ BuildingRanks = 0..3
    /\ HandOffNodes(tree) = {3, 4, 5, 6}
    /\ \E q \in BuildingRanks :
          /\ q # my_rank
          /\ DOMAIN TreeBuiltBy(q).tree # DOMAIN tree
          /\ Cardinality(DOMAIN TreeBuiltBy(q).tree) > 7
    /\ Cardinality(DOMAIN tree) > 7

\* C11: store_tree followed by load_tree of the file it wrote completes without
\* error and yields a table keyed by the same node ids, in which every leaf has
\* the same grid, l_corner and r_corner with split axis and position unset, and
\* every split node the same split axis and position and no grid.
C11_RoundTrip ==
    (store.last = "round_trip") =>
        /\ store.store_err = ""
        /\ store.load_err = ""
        /\ store.tree_form = "table"
        /\ DOMAIN store.table = DOMAIN store.before
        /\ \A id \in DOMAIN store.before :
              LET b == store.before[id]
                  a == store.table[id]
              IN  /\ b.grid # None =>
                        /\ a.grid = b.grid
                        /\ a.l_corner = b.l_corner
                        /\ a.r_corner = b.r_corner
                        /\ a.split_ax = None /\ a.split_pos = None
                  /\ (b.grid = None /\ b.split_ax # None) =>
                        /\ a.split_ax = b.split_ax
                        /\ a.split_pos = b.split_pos
                        /\ a.grid = None

\* C16: when reduce_tree_images has been invoked a second time with the same
\* per-rank images and viewpoint and has returned at the root owner, the image
\* there is the result of the first invocation.
C16_RerunKeepsImage ==
    (rk[0].run = 2 /\ rk[0].pc = "returned") => rk[0].image = rk[0].first

\* C21: in a tree built for P=4 every node below a hand-off node carries an
\* owner, and it is the rank that claims that hand-off node.
C21_OwnerBelowHandOff ==
    (pc = "ready" /\ nprocs = 4) =>
        \A i \in DOMAIN tree \ (AboveHandOff(tree) \cup HandOffNodes(tree)) :
            \E h \in HandOffNodes(tree) :
                /\ IsAtOrBelow(i, h)
                /\ "owner" \in tree[i].attrs
                /\ tree[i].owner = h + 1 - nprocs

\* C22: traverse never hands out an absent brick: on a tree whose bricks
\* get_bricks has not made it ends with an error before a leaf's brick is yielded.
C22_NoAbsentBrick ==
    \A k \in 1..Len(bricks.yielded) : bricks.yielded[k] # None

\* The builder stands on a node it has to divide: its own to build, with
\* several candidate grids or one that does not cover the box.
AtDividing ==
    /\ pc = "build"
    /\ current_node # None
    /\ "grids" \in tree[current_node].attrs
    /\ ~(IsHandOff(current_node, nprocs) /\ ~IOwn(current_node, nprocs, my_rank))
    /\ Len(tree[current_node].grids) > 0
    /\ ~SingleCovering(tree[current_node])

\* No candidate of n has a lower or upper edge strictly inside the box on axis d.
NoInteriorEdge(n, d) ==
    \A k \in 1..Len(n.grids) :
        /\ ~(At(n.l_corner, d) < At(hier[n.grids[k]].LeftEdge, d)
             /\ At(hier[n.grids[k]].LeftEdge, d) < At(n.r_corner, d))
        /\ ~(At(n.l_corner, d) < At(hier[n.grids[k]].RightEdge, d)
             /\ At(hier[n.grids[k]].RightEdge, d) < At(n.r_corner, d))

\* No edge on the axes _build_dividing_node looks at: the longest axis with
\* more than 20 candidates, all three otherwise.
Degenerate(n) ==
    IF Len(n.grids) > BigGridCount THEN NoInteriorEdge(n, LongestAxis(n))
    ELSE \A d \in Axes : NoInteriorEdge(n, d)

\* C23: a node to divide that has no grid edge strictly interior to its box
\* makes the build fail: the step raises, the node is neither split nor made a
\* leaf, and a failed build never yields a tree.
C23_DegenerateIsFatal ==
    [][/\ (AtDividing /\ Degenerate(tree[current_node])) =>
            (pc' = "failed" /\ err' = "IndexError" /\ tree' = tree)
       /\ pc = "failed" => pc' = "failed"]_vars

C23_Witness ==
    /\ pc = "failed"
    /\ err = "IndexError"
    /\ Len(tree[current_node].grids) > 1
    /\ Degenerate(tree[current_node])

\* The step divides the current node.
Divides ==
    /\ pc = "build"
    /\ current_node # None
    /\ tree[current_node].split_ax = None
    /\ tree'[current_node].split_ax # None

\* Grid id g is among the candidates gs.
IsCandidate(g, gs) == \E k \in 1..Len(gs) : gs[k] = g

\* Grid g strictly overlaps the box of node c on every axis.
OverlapsNode(g, c) ==
    \A d \in Axes : /\ At(hier[g].LeftEdge, d) < At(c.r_corner, d)
                    /\ At(hier[g].RightEdge, d) > At(c.l_corner, d)

\* C29: at a split a candidate goes to the left child iff its lower edge on
\* the split axis is below the split position and to the right child iff its
\* upper edge is above it; a straddling grid goes to both, every candidate to
\* at least one, and each child gets exactly the candidates that strictly
\* overlap its box.
C29_CandidatePartition ==
    [][Divides =>
        LET n == tree[current_node]
            d == tree'[current_node].split_ax
            s == tree'[current_node].split_pos
            l == tree'[tree'[current_node].left_child]
            r == tree'[tree'[current_node].right_child]
        IN  /\ \A g \in 1..Len(hier) :
                  /\ IsCandidate(g, l.grids) <=>
                        (IsCandidate(g, n.grids) /\ At(hier[g].LeftEdge, d) < s)
                  /\ IsCandidate(g, r.grids) <=>
                        (IsCandidate(g, n.grids) /\ At(hier[g].RightEdge, d) > s)
                  /\ IsCandidate(g, l.grids) <=>
                        (IsCandidate(g, n.grids) /\ OverlapsNode(g, l))
                  /\ IsCandidate(g, r.grids) <=>
                        (IsCandidate(g, n.grids) /\ OverlapsNode(g, r))
                  /\ IsCandidate(g, n.grids) =>
                        (IsCandidate(g, l.grids) \/ IsCandidate(g, r.grids))
                  /\ (/\ IsCandidate(g, n.grids)
                      /\ At(hier[g].LeftEdge, d) < s
                      /\ At(hier[g].RightEdge, d) > s) =>
                        (IsCandidate(g, l.grids) /\ IsCandidate(g, r.grids))
            /\ Len(l.grids) = Cardinality({g \in 1..Len(hier) : IsCandidate(g, l.grids)})
            /\ Len(r.grids) = Cardinality({g \in 1..Len(hier) : IsCandidate(g, r.grids)})]_vars

\* A split has just given one grid that straddles the plane to both children.
C29_Witness ==
    /\ pc = "build"
    /\ \E i \in DOMAIN tree :
          /\ tree[i].split_ax # None
          /\ tree[i].left_child \in DOMAIN tree
          /\ tree[i].right_child \in DOMAIN tree
          /\ "grids" \in tree[tree[i].left_child].attrs
          /\ "grids" \in tree[tree[i].right_child].attrs
          /\ \E g \in 1..Len(hier) :
                /\ IsCandidate(g, tree[tree[i].left_child].grids)
                /\ IsCandidate(g, tree[tree[i].right_child].grids)
                /\ At(hier[g].LeftEdge, tree[i].split_ax) < tree[i].split_pos
                /\ At(hier[g].RightEdge, tree[i].split_ax) > tree[i].split_pos

\* The distinct edge positions of n's candidates strictly inside its box on axis d.
InteriorEdges(n, d) ==
    {e \in {At(hier[n.grids[k]].LeftEdge, d) : k \in 1..Len(n.grids)}
           \cup {At(hier[n.grids[k]].RightEdge, d) : k \in 1..Len(n.grids)} :
        At(n.l_corner, d) < e /\ e < At(n.r_corner, d)}

\* C30: with at most 20 candidates the split axis is the axis with the most
\* distinct interior edge positions, the lowest such axis on a tie, and the
\* split position is the element at index (count-1)//2 of that axis's sorted
\* distinct interior edges.
C30_SplitSelection ==
    [][(Divides /\ Len(tree[current_node].grids) <= BigGridCount) =>
        LET n == tree[current_node]
            d == tree'[current_node].split_ax
            s == tree'[current_node].split_pos
        IN  /\ d \in Axes
            /\ \A e \in Axes :
                  Cardinality(InteriorEdges(n, e)) <= Cardinality(InteriorEdges(n, d))
            /\ \A e \in Axes :
                  e < d => Cardinality(InteriorEdges(n, e)) < Cardinality(InteriorEdges(n, d))
            /\ s \in InteriorEdges(n, d)
            /\ Cardinality({y \in InteriorEdges(n, d) : y < s})
                  = (Cardinality(InteriorEdges(n, d)) - 1) \div 2]_vars

\* A node was split on the lower median of two edges on axis 1, and the root
\* on axis 0 although another axis had as many edges.
C30_Witness ==
    /\ pc = "ready"
    /\ \E i \in DOMAIN tree :
          /\ tree[i].split_ax = 1
          /\ tree[i].split_pos = 4
          /\ At(tree[i].l_corner, 1) = 0
          /\ At(tree[i].r_corner, 1) >= 16
    /\ tree[0].split_ax = 0

\* Rank r stands at the first if of a round as the owner of the front child
\* and takes its step.
FrontOwnerActs(r) ==
    /\ rk[r].pc = "front_if"
    /\ rk[r].owner[FrontChild(ParentOf(r), viewpoint)] = r
    /\ rk'[r] # rk[r]

\* The step posts r's image to the owner of the back child.
SendsToBack(r) ==
    /\ rk'[r].image = rk[r].image
    /\ \E m \in inflight' \ inflight :
          /\ m.src = r
          /\ m.dst = rk[r].owner[BackChild(ParentOf(r), viewpoint)]
          /\ m.image = rk[r].image

\* The step takes the image of the back child's owner and merges it into r's.
ReceivesFromBack(r) ==
    /\ \E m \in inflight \ inflight' :
          /\ m.src = rk[r].owner[BackChild(ParentOf(r), viewpoint)]
          /\ m.dst = r
          /\ rk'[r].lastBack = m.image
          /\ rk'[r].merged = rk[r].merged \o m.merged
    /\ inflight' \subseteq inflight

\* C26: in each round the owner of the front subtree sends its image to the
\* back owner when the two owners differ and the back owner is not the parent's
\* owner, and otherwise receives the back owner's image and merges it.
C26_FrontSendsWhenBackNotParent ==
    [][\A r \in DOMAIN rk :
          FrontOwnerActs(r) =>
             IF /\ FrontOwner(r) # rk[r].owner[BackChild(ParentOf(r), viewpoint)]
                /\ rk[r].owner[BackChild(ParentOf(r), viewpoint)] # ParentOwner(r)
             THEN SendsToBack(r)
             ELSE ReceivesFromBack(r)]_vars

\* C26 (amended): the two owners always differ and one of them is the parent's
\* owner; the owner of the front subtree sends its image to the back owner
\* when the back owner is the parent's owner, and receives the back owner's
\* image and merges it when it is the parent's owner itself.
C26_FrontSendsWhenBackIsParent ==
    [][\A r \in DOMAIN rk :
          FrontOwnerActs(r) =>
             /\ FrontOwner(r) # rk[r].owner[BackChild(ParentOf(r), viewpoint)]
             /\ (FrontOwner(r) = ParentOwner(r))
                   # (rk[r].owner[BackChild(ParentOf(r), viewpoint)] = ParentOwner(r))
             /\ IF rk[r].owner[BackChild(ParentOf(r), viewpoint)] = ParentOwner(r)
                THEN SendsToBack(r)
                ELSE ReceivesFromBack(r)]_vars

\* A front owner's image is on its way to the back owner, the parent's owner.
C26_Witness ==
    /\ nprocs = 4
    /\ \E r \in DOMAIN rk :
          /\ rk[r].pc = "front_sending"
          /\ \E m \in inflight : m.src = r /\ m.dst = ParentOwner(r) /\ m.dst # r

\* C27: after a round a rank goes on with the parent iff it is the parent's
\* recorded owner and stops otherwise; no rank sends more than once, rank 0
\* never sends, and in the end every other rank has sent exactly once.
C27_OnlyParentOwnerContinues ==
    /\ [][\A r \in DOMAIN rk :
            (rk[r].pc = "advance" /\ rk'[r] # rk[r]) =>
               /\ (rk'[r].my_node = ParentOf(r).id) <=> (r = rk[r].owner[ParentOf(r).id])
               /\ (r # rk[r].owner[ParentOf(r).id]) =>
                     (rk'[r].pc = "returned" /\ rk'[r].my_node = rk[r].my_node)]_vars
    /\ [](\A r \in DOMAIN rk : rk[r].sent <= 1 /\ (r = 0 => rk[r].sent = 0))
    /\ <>[](\A r \in DOMAIN rk : rk[r].sent = IF r = 0 THEN 0 ELSE 1)

C27_Witness ==
    /\ nprocs = 4
    /\ eager
    /\ AllReturned
    /\ \A r \in DOMAIN rk : rk[r].sent = IF r = 0 THEN 0 ELSE 1
    /\ rk[2].thisround = 1
    /\ rk[1].thisround = 2

HaveFileOpen == {r \in DOMAIN store.ranks : store.ranks[r].open}

AllKdReturned == \A r \in DOMAIN store.ranks : store.ranks[r].pc = "returned"

\* Opening the file failed on some rank, or a read of a dataset did.
FileOperationFailed ==
    \/ store.open_fails # {}
    \/ store.mode = "load" /\ store.kd_file = "missing"
    \/ store.read_failed

\* C24: when the ranks run store_kd_bricks or load_kd_bricks, at most one rank
\* has the shared file open at any time, the ranks open it in strictly
\* increasing rank order starting at rank 0, and when no file operation fails
\* every rank eventually returns.
C24_RankOrderedHandOff ==
    /\ [](Cardinality(HaveFileOpen) <= 1)
    /\ [](\A j, k \in 1..Len(store.opened) : j < k => store.opened[j] < store.opened[k])
    /\ []((store.opened # <<>> /\ ~FileOperationFailed) => store.opened[1] = 0)
    /\ <>[](store.mode # "" /\ (FileOperationFailed \/ AllKdReturned))

\* Rank r met a failure opening or reading the file.
KdFailed(r) == store.ranks[r].err # ""

\* C25: in load_kd_bricks a failure to open or read the brick file is not
\* fatal: no rank raises, a rank that failed keeps bricks_loaded false, every
\* rank passes the token on and returns, and bricks_loaded is true only on a
\* rank that attached a brick to every leaf of its tree.
C25_LoadFailureIsCacheMiss ==
    /\ [](store.mode = "load" =>
            \A r \in DOMAIN store.ranks :
                /\ store.ranks[r].pc # "raised"
                /\ KdFailed(r) => ~store.ranks[r].bricks_loaded
                /\ store.ranks[r].bricks_loaded =>
                      \A id \in DOMAIN store.table :
                          store.table[id].grid # None => id \in store.ranks[r].attached)
    /\ [][store.mode = "load" =>
            \A r \in DOMAIN store.ranks :
                (r # nprocs - 1 /\ store.ranks[r].pc # "returned"
                 /\ store'.ranks[r].pc = "returned") =>
                    ([src |-> r, dst |-> r + 1, tag |-> r] \in store.tokens
                     \/ store.ranks[r + 1].pc # "recv")]_vars
    /\ <>[](store.mode = "store" \/ AllKdReturned)

\* Four ranks, the file cannot be opened on rank 0 and not read on the others:
\* all have returned with bricks_loaded false.
C25_Witness ==
    /\ store.mode = "load"
    /\ nprocs = 4
    /\ store.open_fails = {0}
    /\ AllKdReturned
    /\ store.ranks[0].err = "IOError"
    /\ store.ranks[3].err = "KeyError"
    /\ \A r \in DOMAIN store.ranks : ~store.ranks[r].bricks_loaded


-----------------------------------------------------------------------------
(* The cases of __build *)

\* The node __build is examining has exactly one candidate, and that grid
\* contains the node's box.
AtSingleGrid ==
    /\ pc = "build"
    /\ current_node # None
    /\ "grids" \in tree[current_node].attrs
    /\ ~(IsHandOff(current_node, nprocs) /\ (current_node + 1 - nprocs) # my_rank)
    /\ Len(tree[current_node].grids) = 1
    /\ \A d \in Axes :
          /\ At(hier[tree[current_node].grids[1]].LeftEdge, d) <= At(tree[current_node].l_corner, d)
          /\ At(hier[tree[current_node].grids[1]].RightEdge, d) >= At(tree[current_node].r_corner, d)

\* The children of grid g at a level <= l_max that strictly intersect the box
\* of node n.
FinerInBox(g, n) ==
    {c \in {hier[g].Children[k] : k \in 1..Len(hier[g].Children)} :
        /\ hier[c].Level <= l_max
        /\ \A d \in Axes : /\ At(hier[c].LeftEdge, d) < At(n.r_corner, d)
                           /\ At(hier[c].RightEdge, d) > At(n.l_corner, d)}

\* The elements of a sequence.
Range(s) == {s[k] : k \in 1..Len(s)}

\* C31: in the single-grid case (one candidate, containing the node's box) the
\* node becomes a leaf of that grid if and only if the grid has no child at a
\* level <= l_max strictly intersecting the box; otherwise the candidates
\* become exactly those children, parent_grid becomes the covering grid, and
\* the same node is examined again, not finalized.
C31_SingleGridCase ==
    [][AtSingleGrid =>
          LET n == tree[current_node]
              m == tree'[current_node]
              g == n.grids[1]
          IN  IF FinerInBox(g, n) = {}
              THEN /\ m.grid = hier[g].id
                   /\ "grids" \notin m.attrs
                   /\ m.l_corner = n.l_corner /\ m.r_corner = n.r_corner
                   /\ current_node' # current_node
              ELSE /\ m.grid = None
                   /\ "grids" \in m.attrs
                   /\ Range(m.grids) = FinerInBox(g, n)
                   /\ Len(m.grids) = Cardinality(FinerInBox(g, n))
                   /\ m.parent_grid = g
                   /\ current_node' = current_node
                   /\ DOMAIN tree' = DOMAIN tree]_vars

\* A build in which both outcomes happened: a grid with children limited by
\* l_max < max_level + 1 was replaced by its children, and a leaf is bound to
\* a level-1 grid that has children of its own.
C31_Witness ==
    /\ Constructed
    /\ \E i \in DOMAIN tree :
          /\ tree[i].grid # None
          /\ hier[tree[i].grid].Level = 1
          /\ Len(hier[tree[i].grid].Children) > 0


\* The node __build is examining has an empty candidate set.
AtEmpty ==
    /\ pc = "build"
    /\ current_node # None
    /\ "grids" \in tree[current_node].attrs
    /\ ~(IsHandOff(current_node, nprocs) /\ (current_node + 1 - nprocs) # my_rank)
    /\ Len(tree[current_node].grids) = 0

\* Grid g contains the box of node n.
GridBoxContains(g, n) ==
    \A d \in Axes : /\ At(hier[g].LeftEdge, d) <= At(n.l_corner, d)
                    /\ At(n.r_corner, d) <= At(hier[g].RightEdge, d)

\* C32: a node with an empty candidate set becomes a leaf bound to its
\* parent_grid.  A node's parent_grid is the grid recorded when a single
\* covering grid was replaced by its children at that node, or else the value
\* its parent had when it was split (none at the root); nothing else changes
\* it, and the grid's box contains the box of every node that carries it.
C32_EmptyBindsParentGrid ==
    [][(pc = "build" /\ current_node # None) =>
          /\ AtEmpty =>
                /\ tree[current_node].parent_grid # None
                /\ tree'[current_node].grid = hier[tree[current_node].parent_grid].id
                /\ "grids" \notin tree'[current_node].attrs
                /\ GridBoxContains(tree[current_node].parent_grid, tree'[current_node])
          /\ \A i \in DOMAIN tree' :
                "parent_grid" \in tree'[i].attrs =>
                   /\ \/ /\ i \in DOMAIN tree
                         /\ "parent_grid" \in tree[i].attrs
                         /\ tree'[i].parent_grid = tree[i].parent_grid
                      \/ /\ i = current_node
                         /\ AtSingleGrid
                         /\ FinerInBox(tree[i].grids[1], tree[i]) # {}
                         /\ tree'[i].parent_grid = tree[i].grids[1]
                      \/ /\ i \notin DOMAIN tree
                         /\ tree'[i].parent = current_node
                         /\ tree'[i].parent_grid = tree[current_node].parent_grid
                   /\ tree'[i].parent_grid # None =>
                         GridBoxContains(tree'[i].parent_grid, tree'[i])]_vars

\* __build is at a node with an empty candidate set two or more splits below
\* the root, whose parent_grid came down from the node where that grid was
\* replaced by its children.
C32_Witness ==
    /\ AtEmpty
    /\ current_node >= 3
    /\ tree[current_node].parent_grid # None
    /\ hier[tree[current_node].parent_grid].Level = 1


\* The nodes at the hand-off depth that this rank does not claim.
ForeignHandOff(t) ==
    {i \in DOMAIN t : /\ Pow2(Log2Floor(nprocs)) <= i + 1
                      /\ i + 1 < 2 * Pow2(Log2Floor(nprocs))
                      /\ i + 1 - nprocs # my_rank}

\* The node at the hand-off depth that this rank claims, if it was created.
MyHandOff(t) == {i \in DOMAIN t : i = nprocs - 1 + my_rank /\ IsHandOff(i, nprocs)}

\* C33: with P > 1 a hand-off node left to another rank never gets a grid, a
\* split axis or children, no node below it is ever created, and once the
\* build is over it carries owner = id + 1 - P; my_l_corner and my_r_corner
\* are the bounds of the hand-off node this rank claims.
C33_RemoteBoundary ==
    (nprocs > 1 /\ pc # "init") =>
       /\ \A i \in ForeignHandOff(tree) :
             /\ tree[i].grid = None
             /\ tree[i].split_ax = None /\ tree[i].split_pos = None
             /\ tree[i].left_child = None /\ tree[i].right_child = None
             /\ \A j \in DOMAIN tree : j > i => ~IsAtOrBelow(j, i)
             /\ Constructed => /\ "owner" \in tree[i].attrs
                               /\ tree[i].owner = i + 1 - nprocs
       /\ \A i \in MyHandOff(tree) :
             Constructed => /\ my_l_corner = tree[i].l_corner
                            /\ my_r_corner = tree[i].r_corner
                            /\ "owner" \notin tree[i].attrs

\* A finished 4-rank build: the rank divided its own hand-off node, whose box
\* is not the whole region, and left the hand-off node of another rank.
C33_Witness ==
    /\ Constructed
    /\ nprocs = 4
    /\ ForeignHandOff(tree) # {}
    /\ \E i \in MyHandOff(tree) : /\ tree[i].left_child # None
                                  /\ my_l_corner = tree[i].l_corner
                                  /\ my_r_corner = tree[i].r_corner
                                  /\ <<my_l_corner, my_r_corner>>
                                        # <<domain_left_edge, domain_right_edge>>


-----------------------------------------------------------------------------
(* Coverage of the traversal and of the ranks *)

\* C34: for every built tree and every viewpoint, also one lying on a split
\* plane, the walk of viewpoint_traverse has yielded each leaf of the local
\* tree exactly once when it ends.
C34_EveryLeafOnce ==
    pc = "traversed" =>
        \A i \in Leaves(tree) : Cardinality({k \in 1..Len(visited) : visited[k] = i}) = 1


\* The leaves of the tree rank q builds from the same grids, as <<id, grid>>.
LeavesBuiltBy(q) ==
    {<<i, TreeBuiltBy(q).tree[i].grid>> : i \in Leaves(TreeBuiltBy(q).tree)}

\* C35: for a power-of-two P > 1 and grids the constructor accepts, no node
\* above the hand-off depth is a leaf, the hand-off node the rank claims exists
\* in its tree, and no leaf of this rank's tree is a leaf of another rank's.
C35_NoVolumeOwnedTwice ==
    (pc = "ready" /\ nprocs > 1 /\ IsPowerOfTwo(nprocs)) =>
        /\ \A i \in AboveHandOff(tree) : tree[i].grid = None
        /\ (nprocs - 1 + my_rank) \in DOMAIN tree
        /\ \A q \in (0..(nprocs - 1)) \ {my_rank} :
              LeavesBuiltBy(q) \cap {<<i, tree[i].grid>> : i \in Leaves(tree)} = {}


\* Every node down to the hand-off depth was created, so that the labelling
\* loop of reduce_tree_images finds the children it assigns to.
SkeletonComplete ==
    \A i \in 0..(2 * Pow2(Log2Floor(nprocs)) - 2) : i \in DOMAIN tree

\* The ranks id + 1 - P of the hand-off nodes at or below node i.
RanksBelow(i) ==
    {j + 1 - nprocs : j \in {x \in HandOffNodes(tree) : IsAtOrBelow(x, i)}}

\* C36: on the tree __build left, the labelling loop of reduce_tree_images
\* ends at the hand-off node P-1+my_rank, the one this rank claimed; it gives
\* every hand-off node it labels the owner id+1-P, every node above the lowest
\* rank of the hand-off nodes below it, and two siblings different owners.
C36_OwnersAgree ==
    (pc = "ready" /\ nprocs > 1 /\ SkeletonComplete) =>
        LET res == LabelPath(tree, nprocs, my_rank, 0, 0, (0 :> 0))
            owner == res[2]
        IN  /\ res[1] = nprocs - 1 + my_rank
            /\ res[1] \in claimed
            /\ \A i \in DOMAIN owner :
                  /\ IsHandOff(i, nprocs) => owner[i] = i + 1 - nprocs
                  /\ ~IsHandOff(i, nprocs) =>
                        /\ owner[i] \in RanksBelow(i)
                        /\ \A q \in RanksBelow(i) : owner[i] <= q
                  /\ (i > 0 /\ i % 2 = 1) => /\ (i + 1) \in DOMAIN owner
                                             /\ owner[i] # owner[i + 1]


\* C37: on a properly nested hierarchy every leaf is bound to a grid at a
\* level <= l_max whose box contains the leaf's box, and no child of that grid
\* at a level <= l_max strictly overlaps the leaf's box.
C37_FinestAdmissibleGrid ==
    pc # "init" =>
        \A i \in Leaves(tree) :
            /\ tree[i].grid \in 1..Len(hier)
            /\ hier[tree[i].grid].Level <= l_max
            /\ GridBoxContains(tree[i].grid, tree[i])
            /\ FinerInBox(tree[i].grid, tree[i]) = {}

\* A finished build with a leaf on the finest level, and a leaf bound to a
\* coarser grid whose admissible children lie beside the leaf's box.
C37_Witness ==
    /\ Constructed
    /\ max_level(hier) = 2
    /\ \E i \in Leaves(tree) : hier[tree[i].grid].Level = 2
    /\ \E i \in Leaves(tree) :
          /\ hier[tree[i].grid].Level < l_max
          /\ Len(hier[tree[i].grid].Children) > 0


-----------------------------------------------------------------------------
(* Termination of __build *)

\* Every created node is a leaf, a split node or the placeholder of another
\* rank's hand-off node, and only such placeholders still hold candidates.
AllFinalized ==
    \A i \in DOMAIN tree :
        /\ IsLeafNode(tree[i]) \/ IsSplitNode(tree[i]) \/ IsRemotePlaceholder(tree[i])
        /\ "grids" \in tree[i].attrs => IsRemotePlaceholder(tree[i])

-----------------------------------------------------------------------------
(* The shortcut of _build_dividing_node for more than 20 candidates *)

\* C39: a node with more than 20 candidates that has a grid edge strictly
\* inside its box on some axis does not make _build_dividing_node fail, and
\* every split position lies strictly inside the box on the split axis.
C39_ShortcutKeepsViableSplits ==
    /\ (pc = "failed" /\ err = "IndexError" /\ Len(tree[current_node].grids) > BigGridCount) =>
           \A d \in Axes : NoInteriorEdge(tree[current_node], d)
    /\ pc # "init" =>
           \A i \in SplitNodes(tree) :
               /\ At(tree[i].l_corner, tree[i].split_ax) < tree[i].split_pos
               /\ tree[i].split_pos < At(tree[i].r_corner, tree[i].split_ax)

====
